---------------------------- MODULE Spec2Model ----------------------------
(***************************************************************************)
(* State-machine model of the financial_friend repository.                 *)
(*                                                                         *)
(* Backend service (src/system_design): the relational store is modelled   *)
(* as one variable per table; every router handler is one atomic action    *)
(* that reads the store, possibly writes it, commits and leaves its HTTP   *)
(* response in resp.  Enum columns are modelled by their string values.    *)
(*                                                                         *)
(* Prototypes (src/streamlit_prototype): the pure helpers are operators;   *)
(* each has a small specification whose Init draws the inputs and whose    *)
(* actions apply the helper.                                               *)
(***************************************************************************)
EXTENDS Integers, Sequences, FiniteSets, TLC

VARIABLES
    now,          \* the wall clock read by datetime.utcnow()
    users,        \* table users: sequence of rows, user_id = index
    news,         \* table news: sequence of rows, news_id = index
    sessions,     \* table sessions: session_id -> row
    session_seq,  \* last value of the sessions.session_id sequence
    tasks,        \* table agent_tasks: task_id -> row
    task_seq,     \* last value of the agent_tasks.task_id sequence
    dialogues,    \* table dialogues: dialogue_id -> row
    dialogue_seq, \* last value of the dialogues.dialogue_id sequence
    interactions, \* table user_news_interactions: sequence of rows
    schema,       \* the draft the tables were created from ("A" or "B")
    txn,          \* the requests handled concurrently, by request
    resp,         \* the response of the last handled request
    pw,           \* utils.py: password hashing scenario
    url,          \* normalize_url scenario (news agent drafts v1 and v2)
    batch,        \* news agent draft v2: batch_process_pipeline scenario
    chat          \* glossary prototypes v1..v4: lookup scenario

vars == <<now, users, news, sessions, session_seq, tasks, task_seq,
          dialogues, dialogue_seq, interactions, schema, txn, resp,
          pw, url, batch, chat>>

auxVars == <<dialogues, dialogue_seq, interactions, schema, txn>>
dbVars == <<now, users, news, sessions, session_seq, tasks, task_seq, auxVars, resp>>
protoVars == <<pw, url, batch, chat>>

-----------------------------------------------------------------------------
(* Bounds of the model *)

MaxDialogues == 1     \* dialogues ever created
MaxInteractions == 3  \* interactions ever recorded
MaxTasks == 1        \* task rows ever created
MaxSessions == 2     \* session rows ever created
MaxUsers == 2        \* user rows ever created
MaxNews == 2         \* news rows ever created
MaxTime == 37        \* the clock stops advancing here (hours)
TickHours == 12      \* the clock advances in steps of this many hours
MaxPwLen == 2        \* characters of a password
MaxStoredLen == 3    \* characters of an arbitrary stored credential
SaltLen == 1         \* hexadecimal characters of a salt
MaxUrlLen == 4       \* characters of a URL
MaxBatch == 3        \* articles of one batch
FingerprintBits == 3 \* width of a fingerprint
MaxTextLen == 1000   \* characters of a text given to the token estimator
MaxPerSource == 2    \* settings['articles_per_source']: entries read from one feed
MaxRuns == 2         \* batch runs over the same feeds
MaxMessages == 3     \* dialogues created in the history scenario
MaxHistory == 5      \* entries of the v3 chat history before a chat input
MaxTurns == 6        \* messages of the v4 chat history
MaxStored == 6       \* rows of the v1 articles table
TimeWindowDays == 30 \* settings['time_window'], in days

-----------------------------------------------------------------------------
(* Values shared by the backend handlers *)

\* Python None in an integer or datetime column
None == -1
\* Python None in a string / JSON / enum column
NoneStr == "None"

HTTP_200_OK == 200
HTTP_201_CREATED == 201
HTTP_204_NO_CONTENT == 204
HTTP_400_BAD_REQUEST == 400
HTTP_401_UNAUTHORIZED == 401
HTTP_404_NOT_FOUND == 404
HTTP_500_INTERNAL == 500

\* the response of a handler: operation, path id, status code, detail, rows
\* (args: the skip and limit of a list request, the unique key of a create
\* request)
Response(op, id, code, detail, body) ==
    [op |-> op, id |-> id, code |-> code, detail |-> detail, body |-> body,
     args |-> <<>>]

CreateResponse(op, id, code, detail, body, key) ==
    [op |-> op, id |-> id, code |-> code, detail |-> detail, body |-> body,
     args |-> <<key>>]

ListResponse(op, id, skip, limit, body) ==
    [op |-> op, id |-> id, code |-> HTTP_200_OK, detail |-> "", body |-> body,
     args |-> <<skip, limit>>]

\* the requests in flight when two are handled at once (two workers, each
\* with a database session of its own): what a request has read and how far
\* it has come
Requests == {1, 2}
NoTxn == [r \in Requests |->
            [op |-> "none", pc |-> "idle", id |-> 0, arg |-> <<>>, loaded |-> <<>>,
             code |-> 0, seq |-> 0]]

NoResponse == Response("none", 0, 0, "", <<>>)

\* a response together with the arguments of the request it answers
WithArgs(response, args) == [response EXCEPT !.args = args]

\* enums.TaskStatus
TaskStatus == {"pending", "in_progress", "completed", "failed", "cancelled"}

\* enums.TaskStatus.is_terminal
is_terminal(s) == s \in {"completed", "failed", "cancelled"}

\* the AgentInfo table: no handler of the service writes it
Agents == {1}

\* request payloads
Outputs == {"out1", "out2"}
Errors == {"err1", "err2"}
Durations == {0, 7}
Inputs == {"in1"}
TaskIds == 1..MaxTasks
DialogueIds == 1..MaxDialogues
SessionIds == 1..MaxSessions
AgentIds == Agents \cup {2}

\* db.query(Model).filter(Model.id == id).first() on a table keyed by id
first(table, id) == IF id \in DOMAIN table THEN <<table[id]>> ELSE <<>>

\* db.delete(row); db.commit() on a table keyed by id
delete_row(table, id) == [k \in DOMAIN table \ {id} |-> table[k]]

\* db.add(row); db.commit(): the row gets the next value of the id sequence
add_row(table, id, row) == [k \in DOMAIN table \cup {id} |-> IF k = id THEN row ELSE table[k]]

-----------------------------------------------------------------------------
(* routers/agent_tasks.py *)

\* schemas.AgentTaskUpdate: every field is Optional with default None; pydantic
\* records in model_fields_set the fields the request body carried.  A field
\* is left out or sent with a value; status is also sent as an explicit null.
UpdateFields == {"status", "output_data", "error_reason", "duration_ms"}

AgentTaskUpdate ==
    { u \in [status : {NoneStr} \cup TaskStatus,
             output_data : {NoneStr, "out1"},
             error_reason : {NoneStr, "err1"},
             duration_ms : {None, 0},
             model_fields_set : SUBSET UpdateFields] :
        /\ "status" \notin u.model_fields_set => u.status = NoneStr
        /\ "output_data" \notin u.model_fields_set <=> u.output_data = NoneStr
        /\ "error_reason" \notin u.model_fields_set <=> u.error_reason = NoneStr
        /\ "duration_ms" \notin u.model_fields_set <=> u.duration_ms = None }

\* update_data = model_dump(exclude_unset=True);
\* for field, value in update_data.items(): setattr(row, field, value)
apply_update(row, update) ==
    [f \in DOMAIN row |->
        IF f \in update.model_fields_set THEN update[f] ELSE row[f]]

\* a creation that does not look the agent up
create_agent_task_any_agent(agent_id, session_id, dialogue_id, input_data) ==
    /\ task_seq < MaxTasks
    /\ IF first(sessions, session_id) = <<>>
       THEN /\ resp' = CreateResponse("create_agent_task", 0, HTTP_404_NOT_FOUND, "Session not found", <<>>, <<agent_id, session_id>>)
            /\ UNCHANGED <<tasks, task_seq>>
       ELSE IF dialogue_id # None /\ first(dialogues, dialogue_id) = <<>>
       THEN /\ resp' = CreateResponse("create_agent_task", 0, HTTP_500_INTERNAL, "IntegrityError", <<>>, <<agent_id, session_id>>)
            /\ UNCHANGED <<tasks, task_seq>>
       ELSE LET db_task == [agent_id |-> agent_id, session_id |-> session_id,
                            dialogue_id |-> dialogue_id, input_data |-> input_data,
                            output_data |-> NoneStr, status |-> "pending",
                            error_reason |-> NoneStr, duration_ms |-> None,
                            created_at |-> now]
            IN /\ task_seq' = task_seq + 1
               /\ tasks' = add_row(tasks, task_seq + 1, db_task)
               /\ resp' = CreateResponse("create_agent_task", task_seq + 1, HTTP_201_CREATED, "", <<db_task>>,
                                         <<agent_id, session_id>>)
    /\ UNCHANGED <<now, users, news, sessions, session_seq, auxVars, protoVars>>

\* dialogue_id is None when the request leaves it out; the foreign key
\* agent_tasks.dialogue_id rejects the insert of an id that is no dialogue
create_agent_task(agent_id, session_id, dialogue_id, input_data) ==
    /\ task_seq < MaxTasks
    /\ IF agent_id \notin Agents
       THEN /\ resp' = CreateResponse("create_agent_task", 0, HTTP_404_NOT_FOUND, "Agent not found", <<>>, <<agent_id, session_id>>)
            /\ UNCHANGED <<tasks, task_seq>>
       ELSE IF first(sessions, session_id) = <<>>
       THEN /\ resp' = CreateResponse("create_agent_task", 0, HTTP_404_NOT_FOUND, "Session not found", <<>>, <<agent_id, session_id>>)
            /\ UNCHANGED <<tasks, task_seq>>
       ELSE IF dialogue_id # None /\ first(dialogues, dialogue_id) = <<>>
       THEN /\ resp' = CreateResponse("create_agent_task", 0, HTTP_500_INTERNAL, "IntegrityError", <<>>, <<agent_id, session_id>>)
            /\ UNCHANGED <<tasks, task_seq>>
       ELSE LET db_task == [agent_id |-> agent_id, session_id |-> session_id,
                            dialogue_id |-> dialogue_id, input_data |-> input_data,
                            output_data |-> NoneStr, status |-> "pending",
                            error_reason |-> NoneStr, duration_ms |-> None,
                            created_at |-> now]
            IN /\ task_seq' = task_seq + 1
               /\ tasks' = add_row(tasks, task_seq + 1, db_task)
               /\ resp' = CreateResponse("create_agent_task", task_seq + 1, HTTP_201_CREATED, "", <<db_task>>,
                                         <<agent_id, session_id>>)
    /\ UNCHANGED <<now, users, news, sessions, session_seq, auxVars, protoVars>>

get_agent_task(task_id) ==
    /\ IF first(tasks, task_id) = <<>>
       THEN resp' = Response("get_agent_task", task_id, HTTP_404_NOT_FOUND, "Task not found", <<>>)
       ELSE resp' = Response("get_agent_task", task_id, HTTP_200_OK, "", first(tasks, task_id))
    /\ UNCHANGED <<now, users, news, sessions, session_seq, tasks, task_seq, auxVars, protoVars>>

\* response_model=AgentTaskResponse declares status: TaskStatus, so a row whose
\* status is null is stored but cannot be serialised
task_response(op, task_id, row) ==
    IF row.status \in TaskStatus
    THEN Response(op, task_id, HTTP_200_OK, "", <<row>>)
    ELSE Response(op, task_id, HTTP_500_INTERNAL, "ResponseValidationError", <<>>)

update_agent_task(task_id, task_update) ==
    /\ IF first(tasks, task_id) = <<>>
       THEN /\ resp' = Response("update_agent_task", task_id, HTTP_404_NOT_FOUND, "Task not found", <<>>)
            /\ UNCHANGED tasks
       ELSE LET task == apply_update(tasks[task_id], task_update)
            IN /\ tasks' = [tasks EXCEPT ![task_id] = task]
               /\ resp' = task_response("update_agent_task", task_id, task)
    /\ UNCHANGED <<now, users, news, sessions, session_seq, task_seq, auxVars, protoVars>>

start_agent_task_unchecked(task_id) ==
    /\ IF first(tasks, task_id) = <<>>
       THEN /\ resp' = Response("start_agent_task", task_id, HTTP_404_NOT_FOUND, "Task not found", <<>>)
            /\ UNCHANGED tasks
       ELSE LET task == [tasks[task_id] EXCEPT !.status = "in_progress"]
            IN /\ tasks' = [tasks EXCEPT ![task_id] = task]
               /\ resp' = task_response("start_agent_task", task_id, task)
    /\ UNCHANGED <<now, users, news, sessions, session_seq, task_seq, auxVars, protoVars>>

start_agent_task(task_id) ==
    /\ IF first(tasks, task_id) = <<>>
       THEN /\ resp' = Response("start_agent_task", task_id, HTTP_404_NOT_FOUND, "Task not found", <<>>)
            /\ UNCHANGED tasks
       ELSE IF tasks[task_id].status # "pending"
       THEN /\ IF tasks[task_id].status \in TaskStatus
               THEN resp' = Response("start_agent_task", task_id, HTTP_400_BAD_REQUEST,
                                     tasks[task_id].status, <<>>)
               \* task.status.value on None raises AttributeError
               ELSE resp' = Response("start_agent_task", task_id, HTTP_500_INTERNAL,
                                     "AttributeError", <<>>)
            /\ UNCHANGED tasks
       ELSE LET task == [tasks[task_id] EXCEPT !.status = "in_progress"]
            IN /\ tasks' = [tasks EXCEPT ![task_id] = task]
               /\ resp' = task_response("start_agent_task", task_id, task)
    /\ UNCHANGED <<now, users, news, sessions, session_seq, task_seq, auxVars, protoVars>>

\* a completion that records the duration under "if duration_ms:"
complete_agent_task_truthy(task_id, output_data, duration_ms) ==
    /\ IF first(tasks, task_id) = <<>>
       THEN /\ resp' = WithArgs(Response("complete_agent_task", task_id, HTTP_404_NOT_FOUND, "Task not found", <<>>),
                                <<output_data, duration_ms>>)
            /\ UNCHANGED tasks
       ELSE LET task == [tasks[task_id] EXCEPT !.status = "completed",
                                               !.output_data = output_data,
                                               !.duration_ms = IF duration_ms # 0
                                                               THEN duration_ms ELSE @]
            IN /\ tasks' = [tasks EXCEPT ![task_id] = task]
               /\ resp' = WithArgs(task_response("complete_agent_task", task_id, task),
                                   <<output_data, duration_ms>>)
    /\ UNCHANGED <<now, users, news, sessions, session_seq, task_seq, auxVars, protoVars>>

complete_agent_task(task_id, output_data, duration_ms) ==
    /\ IF first(tasks, task_id) = <<>>
       THEN /\ resp' = WithArgs(Response("complete_agent_task", task_id, HTTP_404_NOT_FOUND, "Task not found", <<>>),
                                <<output_data, duration_ms>>)
            /\ UNCHANGED tasks
       ELSE LET task == [tasks[task_id] EXCEPT !.status = "completed",
                                               !.output_data = output_data,
                                               !.duration_ms = duration_ms]
            IN /\ tasks' = [tasks EXCEPT ![task_id] = task]
               /\ resp' = WithArgs(task_response("complete_agent_task", task_id, task),
                                   <<output_data, duration_ms>>)
    /\ UNCHANGED <<now, users, news, sessions, session_seq, task_seq, auxVars, protoVars>>

\* duration_ms: Optional[int] = None; "if duration_ms:" is false for None and 0
fail_agent_task(task_id, error_reason, duration_ms) ==
    /\ IF first(tasks, task_id) = <<>>
       THEN /\ resp' = WithArgs(Response("fail_agent_task", task_id, HTTP_404_NOT_FOUND, "Task not found", <<>>),
                                <<error_reason, duration_ms>>)
            /\ UNCHANGED tasks
       ELSE LET task == [tasks[task_id] EXCEPT
                            !.status = "failed",
                            !.error_reason = error_reason,
                            !.duration_ms = IF duration_ms # None /\ duration_ms # 0
                                            THEN duration_ms ELSE @]
            IN /\ tasks' = [tasks EXCEPT ![task_id] = task]
               /\ resp' = WithArgs(task_response("fail_agent_task", task_id, task),
                                   <<error_reason, duration_ms>>)
    /\ UNCHANGED <<now, users, news, sessions, session_seq, task_seq, auxVars, protoVars>>

delete_agent_task(task_id) ==
    /\ IF first(tasks, task_id) = <<>>
       THEN /\ resp' = Response("delete_agent_task", task_id, HTTP_404_NOT_FOUND, "Task not found", <<>>)
            /\ UNCHANGED tasks
       ELSE /\ tasks' = delete_row(tasks, task_id)
            /\ resp' = Response("delete_agent_task", task_id, HTTP_204_NO_CONTENT, "", <<>>)
    /\ UNCHANGED <<now, users, news, sessions, session_seq, task_seq, auxVars, protoVars>>

-----------------------------------------------------------------------------
(* routers/sessions.py *)

\* timedelta(hours=24); the clock counts hours
LEASE_HOURS == 24

\* Between two datetime.utcnow() calls of one handler the clock may advance
ClockSkews == {0, 1}

Contexts == {NoneStr, "ctx1"}
UserIds == 1..MaxUsers
Tokens == 1..MaxSessions
Skips == {0, 1}
Limits == {50}

\* secrets.token_urlsafe(32): a fresh token, distinct from all issued before;
\* the n-th token issued is written n
generate_session_token(n) == n

\* the orderings of the rows ids of table by created_at descending
\* (rows with equal created_at come in any order)
order_by_created_desc(table, ids) ==
    { q \in [1..Cardinality(ids) -> ids] :
        /\ \A i, j \in 1..Cardinality(ids) : i # j => q[i] # q[j]
        /\ \A i, j \in 1..Cardinality(ids) :
              i < j => table[q[i]].created_at >= table[q[j]].created_at }

Min(a, b) == IF a < b THEN a ELSE b

\* .offset(skip).limit(limit).all()
offset_limit(q, skip, limit) == SubSeq(q, skip + 1, Min(Len(q), skip + limit))

\* db.query(User).filter(User.user_id == user_id).first(): soft-deleted rows count
user_exists(user_id) == user_id \in DOMAIN users

create_session(user_id, context, skew) ==
    /\ IF ~user_exists(user_id)
       THEN /\ resp' = CreateResponse("create_session", 0, HTTP_404_NOT_FOUND, "User not found", <<>>, user_id)
            /\ UNCHANGED <<now, sessions, session_seq>>
       ELSE /\ session_seq < MaxSessions
            /\ now + skew <= MaxTime
            /\ LET expires_at == now + LEASE_HOURS        \* first clock read
                   created_at == now + skew               \* second clock read
                   db_session == [user_id |-> user_id,
                                  session_token |-> generate_session_token(session_seq + 1),
                                  context |-> context,
                                  created_at |-> created_at,
                                  expires_at |-> expires_at]
               IN /\ now' = now + skew
                  /\ session_seq' = session_seq + 1
                  /\ sessions' = add_row(sessions, session_seq + 1, db_session)
                  /\ resp' = CreateResponse("create_session", session_seq + 1, HTTP_201_CREATED, "", <<db_session>>, user_id)
    /\ UNCHANGED <<users, news, tasks, task_seq, auxVars, protoVars>>

get_sessions(user_id, skip, limit) ==
    /\ \E q \in order_by_created_desc(sessions, {k \in DOMAIN sessions : sessions[k].user_id = user_id}) :
          resp' = ListResponse("get_sessions", user_id, skip, limit,
                               offset_limit([i \in DOMAIN q |-> sessions[q[i]]], skip, limit))
    /\ UNCHANGED <<now, users, news, sessions, session_seq, tasks, task_seq, auxVars, protoVars>>

get_session(session_id) ==
    /\ IF first(sessions, session_id) = <<>>
       THEN resp' = Response("get_session", session_id, HTTP_404_NOT_FOUND, "Session not found", <<>>)
       ELSE resp' = Response("get_session", session_id, HTTP_200_OK, "", first(sessions, session_id))
    /\ UNCHANGED <<now, users, news, sessions, session_seq, tasks, task_seq, auxVars, protoVars>>

\* db.query(Session).filter(Session.session_token == token).first()
first_by_token(token) ==
    IF \E k \in DOMAIN sessions : sessions[k].session_token = token
    THEN <<sessions[CHOOSE k \in DOMAIN sessions : sessions[k].session_token = token]>>
    ELSE <<>>

get_session_by_token_unchecked(session_token) ==
    /\ IF first_by_token(session_token) = <<>>
       THEN resp' = Response("get_session_by_token", session_token, HTTP_404_NOT_FOUND, "Session not found", <<>>)
       ELSE resp' = Response("get_session_by_token", session_token, HTTP_200_OK, "", first_by_token(session_token))
    /\ UNCHANGED <<now, users, news, sessions, session_seq, tasks, task_seq, auxVars, protoVars>>

get_session_by_token(session_token) ==
    /\ IF first_by_token(session_token) = <<>>
       THEN resp' = Response("get_session_by_token", session_token, HTTP_404_NOT_FOUND, "Session not found", <<>>)
       ELSE IF first_by_token(session_token)[1].expires_at < now
       THEN resp' = Response("get_session_by_token", session_token, HTTP_401_UNAUTHORIZED, "Session expired", <<>>)
       ELSE resp' = Response("get_session_by_token", session_token, HTTP_200_OK, "", first_by_token(session_token))
    /\ UNCHANGED <<now, users, news, sessions, session_seq, tasks, task_seq, auxVars, protoVars>>

\* a context update that also extends the lease
update_session_context_sliding(session_id, context) ==
    /\ IF first(sessions, session_id) = <<>>
       THEN /\ resp' = Response("update_session_context", session_id, HTTP_404_NOT_FOUND, "Session not found", <<>>)
            /\ UNCHANGED sessions
       ELSE LET session == [sessions[session_id] EXCEPT !.context = context,
                                                        !.expires_at = now + LEASE_HOURS]
            IN /\ sessions' = [sessions EXCEPT ![session_id] = session]
               /\ resp' = Response("update_session_context", session_id, HTTP_200_OK, "", <<session>>)
    /\ UNCHANGED <<now, users, news, session_seq, tasks, task_seq, auxVars, protoVars>>

update_session_context(session_id, context) ==
    /\ IF first(sessions, session_id) = <<>>
       THEN /\ resp' = Response("update_session_context", session_id, HTTP_404_NOT_FOUND, "Session not found", <<>>)
            /\ UNCHANGED sessions
       ELSE LET session == [sessions[session_id] EXCEPT !.context = context]
            IN /\ sessions' = [sessions EXCEPT ![session_id] = session]
               /\ resp' = Response("update_session_context", session_id, HTTP_200_OK, "", <<session>>)
    /\ UNCHANGED <<now, users, news, session_seq, tasks, task_seq, auxVars, protoVars>>

refresh_session(session_id) ==
    /\ IF first(sessions, session_id) = <<>>
       THEN /\ resp' = Response("refresh_session", session_id, HTTP_404_NOT_FOUND, "Session not found", <<>>)
            /\ UNCHANGED sessions
       ELSE LET session == [sessions[session_id] EXCEPT !.expires_at = now + LEASE_HOURS]
            IN /\ sessions' = [sessions EXCEPT ![session_id] = session]
               /\ resp' = Response("refresh_session", session_id, HTTP_200_OK, "", <<session>>)
    /\ UNCHANGED <<now, users, news, session_seq, tasks, task_seq, auxVars, protoVars>>

\* db.delete(session): the ORM cascade (all, delete-orphan) deletes the
\* session's agent tasks and dialogues with it, and with a dialogue the agent
\* tasks of Dialogue.agent_tasks
delete_session(session_id) ==
    /\ IF first(sessions, session_id) = <<>>
       THEN /\ resp' = Response("delete_session", session_id, HTTP_404_NOT_FOUND, "Session not found", <<>>)
            /\ UNCHANGED <<sessions, tasks, dialogues>>
       ELSE LET gone == {d \in DOMAIN dialogues : dialogues[d].session_id = session_id}
            IN /\ sessions' = delete_row(sessions, session_id)
               /\ dialogues' = [d \in DOMAIN dialogues \ gone |-> dialogues[d]]
               /\ tasks' = [k \in {t \in DOMAIN tasks :
                                     /\ tasks[t].session_id # session_id
                                     /\ tasks[t].dialogue_id \notin gone} |-> tasks[k]]
               /\ resp' = Response("delete_session", session_id, HTTP_204_NO_CONTENT, "", <<>>)
    /\ UNCHANGED <<now, users, news, session_seq, task_seq, dialogue_seq, interactions, schema, txn, protoVars>>

\* the bulk DELETE on tables whose foreign keys are not enforced
delete_user_sessions_unenforced(user_id) ==
    /\ LET gone == {k \in DOMAIN sessions : sessions[k].user_id = user_id}
       IN /\ sessions' = [k \in DOMAIN sessions \ gone |-> sessions[k]]
          /\ resp' = Response("delete_user_sessions", user_id, HTTP_204_NO_CONTENT, "", <<>>)
    /\ UNCHANGED <<now, users, news, session_seq, tasks, task_seq, auxVars, protoVars>>

\* Query.delete() is a bulk DELETE statement: no ORM cascade runs, and the
\* foreign keys agent_tasks.session_id and dialogues.session_id reject it
\* while a task or a dialogue refers to a deleted session (IntegrityError,
\* nothing is deleted)
delete_user_sessions(user_id) ==
    /\ LET gone == {k \in DOMAIN sessions : sessions[k].user_id = user_id}
       IN IF \/ \E t \in DOMAIN tasks : tasks[t].session_id \in gone
             \/ \E d \in DOMAIN dialogues : dialogues[d].session_id \in gone
          THEN /\ resp' = Response("delete_user_sessions", user_id, HTTP_500_INTERNAL, "IntegrityError", <<>>)
               /\ UNCHANGED sessions
          ELSE /\ sessions' = [k \in DOMAIN sessions \ gone |-> sessions[k]]
               /\ resp' = Response("delete_user_sessions", user_id, HTTP_204_NO_CONTENT, "", <<>>)
    /\ UNCHANGED <<now, users, news, session_seq, tasks, task_seq, auxVars, protoVars>>

\* time passes between requests (the last response has been delivered)
Tick ==
    /\ now + TickHours <= MaxTime
    /\ now' = now + TickHours
    /\ resp' = NoResponse
    /\ UNCHANGED <<users, news, sessions, session_seq, tasks, task_seq, auxVars, protoVars>>

-----------------------------------------------------------------------------
(* utils.py: strings are sequences of one-character strings *)

HexChars == {"a", "1"}

\* the UTF-8 bytes of a character, in hexadecimal
hex_of_char(c) ==
    CASE c = "a" -> <<"6", "1">>
      [] c = "1" -> <<"3", "1">>
      [] c = "$" -> <<"2", "4">>
      [] OTHER -> <<"3", "f">>

RECURSIVE hex_of(_)
hex_of(str) == IF str = <<>> THEN <<>> ELSE hex_of_char(Head(str)) \o hex_of(Tail(str))

\* hashlib.pbkdf2_hmac('sha256', password, salt, 100000).hex(): a hexadecimal
\* digest, taken as collision-free (distinct (password, salt) pairs give
\* distinct digests)
pbkdf2_hmac_hex(password, salt) == hex_of(password) \o <<"0", "0">> \o hex_of(salt)

\* str.split(sep): the pieces of str between the occurrences of sep
RECURSIVE split(_, _)
split(str, sep) ==
    IF str = <<>> THEN <<<<>>>>
    ELSE LET rest == split(Tail(str), sep)
         IN IF Head(str) = sep
            THEN <<<<>>>> \o rest
            ELSE <<<<Head(str)>> \o Head(rest)>> \o Tail(rest)

\* hash_password with the salt secrets.token_hex(16) returned
hash_password(password, salt) == salt \o <<"$">> \o pbkdf2_hmac_hex(password, salt)

\* the body of the try block of verify_password: "salt, stored_hash =
\* hashed_password.split('$')" raises ValueError unless there are two pieces
verify_password_try(password, hashed_password) ==
    LET parts == split(hashed_password, "$")
    IN IF Len(parts) # 2 THEN "ValueError"
       ELSE IF pbkdf2_hmac_hex(password, parts[1]) = parts[2] THEN "True" ELSE "False"

verify_password_no_except(password, hashed_password) ==
    verify_password_try(password, hashed_password)

\* except Exception: return False
verify_password(password, hashed_password) ==
    IF verify_password_try(password, hashed_password) = "ValueError"
    THEN "False"
    ELSE verify_password_try(password, hashed_password)

-----------------------------------------------------------------------------
(* routers/users.py *)

Emails == {"a@x.com", "b@x.com"}
Usernames == {NoneStr, "neo"}
UserTypes == {"user"}
Passwords == {<<"a", "1">>}
UserSalts == {<<"a">>}

\* schemas.UserCreate
UserCreate == [email : Emails, username : Usernames, user_type : UserTypes, password : Passwords]

\* schemas.UserUpdate: Optional fields with default None and model_fields_set
UserUpdate ==
    { u \in [email : {NoneStr} \cup Emails,
             username : Usernames,
             user_type : {NoneStr},
             model_fields_set : SUBSET {"email", "username"}] :
        /\ "email" \notin u.model_fields_set <=> u.email = NoneStr
        /\ "username" \notin u.model_fields_set <=> u.username = NoneStr }

\* filter(deleted_at.is_(None))
not_deleted(row) == row.deleted_at = None

\* the ids of the rows of a table that are not soft-deleted
live_ids(table) == {k \in DOMAIN table : not_deleted(table[k])}

\* the orderings of a set of ids (a query without order_by, or all keys equal)
any_order(ids) ==
    { q \in [1..Cardinality(ids) -> ids] :
        \A i, j \in 1..Cardinality(ids) : i # j => q[i] # q[j] }

\* unique=True on users.email and users.username: would the table accept
\* the value row for id k (NULL usernames do not collide)
users_unique_ok(table, k, row) ==
    \A j \in DOMAIN table \ {k} :
        /\ table[j].email # row.email
        /\ row.username = NoneStr \/ table[j].username # row.username

\* the existence check of create_user restricted to rows that are not soft-deleted
create_user_live_only(user, salt) ==
    /\ IF \E k \in live_ids(users) : users[k].email = user.email
       THEN /\ resp' = CreateResponse("create_user", 0, HTTP_400_BAD_REQUEST, "Email already registered", <<>>, user.email)
            /\ UNCHANGED users
       ELSE /\ Len(users) < MaxUsers
            /\ LET db_user == [email |-> user.email, username |-> user.username,
                               user_type |-> user.user_type,
                               password_hash |-> hash_password(user.password, salt),
                               created_at |-> now, updated_at |-> now,
                               last_active_at |-> None, deleted_at |-> None]
               IN IF users_unique_ok(users, 0, db_user)
                  THEN /\ users' = Append(users, db_user)
                       /\ resp' = CreateResponse("create_user", Len(users) + 1, HTTP_201_CREATED, "", <<db_user>>, user.email)
                  ELSE /\ resp' = CreateResponse("create_user", 0, HTTP_500_INTERNAL, "IntegrityError", <<>>, user.email)
                       /\ UNCHANGED users
    /\ UNCHANGED <<now, news, sessions, session_seq, tasks, task_seq, auxVars, protoVars>>

create_user(user, salt) ==
    /\ IF \E k \in DOMAIN users : users[k].email = user.email
       THEN /\ resp' = CreateResponse("create_user", 0, HTTP_400_BAD_REQUEST, "Email already registered", <<>>, user.email)
            /\ UNCHANGED users
       ELSE /\ Len(users) < MaxUsers
            /\ LET db_user == [email |-> user.email, username |-> user.username,
                               user_type |-> user.user_type,
                               password_hash |-> hash_password(user.password, salt),
                               created_at |-> now, updated_at |-> now,
                               last_active_at |-> None, deleted_at |-> None]
               IN IF users_unique_ok(users, 0, db_user)
                  THEN /\ users' = Append(users, db_user)
                       /\ resp' = CreateResponse("create_user", Len(users) + 1, HTTP_201_CREATED, "", <<db_user>>, user.email)
                  ELSE /\ resp' = CreateResponse("create_user", 0, HTTP_500_INTERNAL, "IntegrityError", <<>>, user.email)
                       /\ UNCHANGED users
    /\ UNCHANGED <<now, news, sessions, session_seq, tasks, task_seq, auxVars, protoVars>>

get_users(skip, limit) ==
    /\ \E q \in any_order(live_ids(users)) :
          resp' = ListResponse("get_users", 0, skip, limit,
                               offset_limit([i \in DOMAIN q |-> users[q[i]]], skip, limit))
    /\ UNCHANGED <<now, users, news, sessions, session_seq, tasks, task_seq, auxVars, protoVars>>

\* db.query(User).filter(User.user_id == user_id, User.deleted_at.is_(None)).first()
first_live(table, id) ==
    IF id \in DOMAIN table /\ table[id].deleted_at = None THEN <<table[id]>> ELSE <<>>

get_user_any(user_id) ==
    /\ IF first(users, user_id) = <<>>
       THEN resp' = Response("get_user", user_id, HTTP_404_NOT_FOUND, "User not found", <<>>)
       ELSE resp' = Response("get_user", user_id, HTTP_200_OK, "", first(users, user_id))
    /\ UNCHANGED <<now, users, news, sessions, session_seq, tasks, task_seq, auxVars, protoVars>>

get_user(user_id) ==
    /\ IF first_live(users, user_id) = <<>>
       THEN resp' = Response("get_user", user_id, HTTP_404_NOT_FOUND, "User not found", <<>>)
       ELSE resp' = Response("get_user", user_id, HTTP_200_OK, "", first_live(users, user_id))
    /\ UNCHANGED <<now, users, news, sessions, session_seq, tasks, task_seq, auxVars, protoVars>>

update_user(user_id, user_update) ==
    /\ IF first_live(users, user_id) = <<>>
       THEN /\ resp' = Response("update_user", user_id, HTTP_404_NOT_FOUND, "User not found", <<>>)
            /\ UNCHANGED users
       ELSE LET user == [apply_update(users[user_id], user_update) EXCEPT !.updated_at = now]
            IN IF users_unique_ok(users, user_id, user)
               THEN /\ users' = [users EXCEPT ![user_id] = user]
                    /\ resp' = Response("update_user", user_id, HTTP_200_OK, "", <<user>>)
               ELSE /\ resp' = Response("update_user", user_id, HTTP_500_INTERNAL, "IntegrityError", <<>>)
                    /\ UNCHANGED users
    /\ UNCHANGED <<now, news, sessions, session_seq, tasks, task_seq, auxVars, protoVars>>

delete_user(user_id) ==
    /\ IF first_live(users, user_id) = <<>>
       THEN /\ resp' = Response("delete_user", user_id, HTTP_404_NOT_FOUND, "User not found", <<>>)
            /\ UNCHANGED users
       \* updated_at: Column(..., onupdate=datetime.utcnow)
       ELSE /\ users' = [users EXCEPT ![user_id].deleted_at = now,
                                      ![user_id].updated_at = now]
            /\ resp' = Response("delete_user", user_id, HTTP_204_NO_CONTENT, "", <<>>)
    /\ UNCHANGED <<now, news, sessions, session_seq, tasks, task_seq, auxVars, protoVars>>

\* a mutant: activating a user clears the deletion time
activate_user_undelete(user_id) ==
    /\ IF first(users, user_id) = <<>>
       THEN /\ resp' = Response("activate_user", user_id, HTTP_404_NOT_FOUND, "User not found", <<>>)
            /\ UNCHANGED users
       ELSE LET user == [users[user_id] EXCEPT !.last_active_at = now, !.updated_at = now,
                                               !.deleted_at = None]
            IN /\ users' = [users EXCEPT ![user_id] = user]
               /\ resp' = Response("activate_user", user_id, HTTP_200_OK, "", <<user>>)
    /\ UNCHANGED <<now, news, sessions, session_seq, tasks, task_seq, auxVars, protoVars>>

activate_user(user_id) ==
    /\ IF first(users, user_id) = <<>>
       THEN /\ resp' = Response("activate_user", user_id, HTTP_404_NOT_FOUND, "User not found", <<>>)
            /\ UNCHANGED users
       \* updated_at: Column(..., onupdate=datetime.utcnow)
       ELSE LET user == [users[user_id] EXCEPT !.last_active_at = now, !.updated_at = now]
            IN /\ users' = [users EXCEPT ![user_id] = user]
               /\ resp' = Response("activate_user", user_id, HTTP_200_OK, "", <<user>>)
    /\ UNCHANGED <<now, news, sessions, session_seq, tasks, task_seq, auxVars, protoVars>>

-----------------------------------------------------------------------------
(* api_test.py: the news router *)

Urls == {"http://n/1", "http://n/2"}
Titles == {"t1"}
NewsIds == 1..MaxNews

\* schemas.NewsCreate (content, source and published_at left null)
NewsCreate == [title : Titles, url : Urls]

\* schemas.NewsUpdate: Optional fields with default None and model_fields_set
NewsUpdate ==
    { u \in [title : {NoneStr, "t2"}, model_fields_set : SUBSET {"title"}] :
        "title" \notin u.model_fields_set <=> u.title = NoneStr }

\* the orderings of the rows ids of table by published_at descending
order_by_published_desc(table, ids) ==
    { q \in any_order(ids) :
        \A i, j \in 1..Cardinality(ids) :
            i < j => table[q[i]].published_at >= table[q[j]].published_at }

create_news(item) ==
    /\ IF \E k \in DOMAIN news : news[k].url = item.url
       THEN /\ resp' = CreateResponse("create_news", 0, HTTP_400_BAD_REQUEST, "News with this URL already exists", <<>>, item.url)
            /\ UNCHANGED news
       ELSE /\ Len(news) < MaxNews
            /\ LET db_news == [title |-> item.title, url |-> item.url, content |-> NoneStr,
                               source |-> NoneStr, published_at |-> None,
                               created_at |-> now, updated_at |-> now, deleted_at |-> None]
               IN /\ news' = Append(news, db_news)
                  /\ resp' = CreateResponse("create_news", Len(news) + 1, HTTP_201_CREATED, "", <<db_news>>, item.url)
    /\ UNCHANGED <<now, users, sessions, session_seq, tasks, task_seq, auxVars, protoVars>>

get_news_list(skip, limit) ==
    /\ \E q \in order_by_published_desc(news, live_ids(news)) :
          resp' = ListResponse("get_news_list", 0, skip, limit,
                               offset_limit([i \in DOMAIN q |-> news[q[i]]], skip, limit))
    /\ UNCHANGED <<now, users, news, sessions, session_seq, tasks, task_seq, auxVars, protoVars>>

get_news(news_id) ==
    /\ IF first_live(news, news_id) = <<>>
       THEN resp' = Response("get_news", news_id, HTTP_404_NOT_FOUND, "News not found", <<>>)
       ELSE resp' = Response("get_news", news_id, HTTP_200_OK, "", first_live(news, news_id))
    /\ UNCHANGED <<now, users, news, sessions, session_seq, tasks, task_seq, auxVars, protoVars>>

update_news(news_id, news_update) ==
    /\ IF first_live(news, news_id) = <<>>
       THEN /\ resp' = Response("update_news", news_id, HTTP_404_NOT_FOUND, "News not found", <<>>)
            /\ UNCHANGED news
       ELSE LET item == [apply_update(news[news_id], news_update) EXCEPT !.updated_at = now]
            IN /\ news' = [news EXCEPT ![news_id] = item]
               /\ resp' = Response("update_news", news_id, HTTP_200_OK, "", <<item>>)
    /\ UNCHANGED <<now, users, sessions, session_seq, tasks, task_seq, auxVars, protoVars>>

delete_news(news_id) ==
    /\ IF first_live(news, news_id) = <<>>
       THEN /\ resp' = Response("delete_news", news_id, HTTP_404_NOT_FOUND, "News not found", <<>>)
            /\ UNCHANGED news
       ELSE /\ news' = [news EXCEPT ![news_id].deleted_at = now]
            /\ resp' = Response("delete_news", news_id, HTTP_204_NO_CONTENT, "", <<>>)
    /\ UNCHANGED <<now, users, sessions, session_seq, tasks, task_seq, auxVars, protoVars>>

-----------------------------------------------------------------------------
(* st_news_agent_draft_v1.py and st_news_agent_draft_v2.py: normalize_url *)

UrlChars == {"a", "A", " ", "\n", "?", "#"}
Whitespace == {" ", "\n"}

\* the strings of at most n characters over an alphabet
StringsUpTo(chars, n) == UNION { [1..k -> chars] : k \in 0..n }

RECURSIVE lstrip(_)
lstrip(str) ==
    IF str # <<>> /\ Head(str) \in Whitespace THEN lstrip(Tail(str)) ELSE str

RECURSIVE rstrip(_)
rstrip(str) ==
    IF str # <<>> /\ str[Len(str)] \in Whitespace
    THEN rstrip(SubSeq(str, 1, Len(str) - 1)) ELSE str

\* str.strip()
strip(str) == rstrip(lstrip(str))

\* str.lower()
lower(str) == [i \in DOMAIN str |-> IF str[i] = "A" THEN "a" ELSE str[i]]

\* re.sub(r'[delims].*$', '', str): "." matches no newline and "$" matches at
\* the end of the string or before a newline that ends it, so the match
\* starts at the first delimiter followed by no newline other than a final one
sub_to_end(str, delims) ==
    LET starts == { i \in DOMAIN str :
                      /\ str[i] \in delims
                      /\ \A j \in DOMAIN str : (j > i /\ str[j] = "\n") => j = Len(str) }
    IN IF starts = {} THEN str
       ELSE LET i == CHOOSE m \in starts : \A n \in starts : m <= n
            IN SubSeq(str, 1, i - 1) \o
               (IF str[Len(str)] = "\n" THEN <<"\n">> ELSE <<>>)

\* v1 normalize_url
normalize_url_v1(u) == sub_to_end(strip(u), {"?", "#"})

\* v2 normalize_url
normalize_url_v2(u) == sub_to_end(sub_to_end(strip(lower(u)), {"?"}), {"#"})

normalize_url(version, u) ==
    IF version = 1 THEN normalize_url_v1(u) ELSE normalize_url_v2(u)

\* the function is applied to its own result
Normalize ==
    /\ url.op \in {"input", "normalize_url"}
    /\ url.count < 2
    /\ url' = [url EXCEPT !.op = "normalize_url",
                          !.prev = url.cur,
                          !.cur = normalize_url(url.version, url.cur),
                          !.count = @ + 1]
    /\ UNCHANGED <<dbVars, pw, batch, chat>>

-----------------------------------------------------------------------------
(* st_news_agent_draft_v2.py: the SimHash dedup step of batch_process_pipeline *)

\* "hamming distance < 3" in batch_process_pipeline
DUP_DISTANCE == 3

RECURSIVE bit_and(_, _)
bit_and(a, b) ==
    IF a = 0 \/ b = 0 THEN 0
    ELSE (a % 2) * (b % 2) + 2 * bit_and(a \div 2, b \div 2)

RECURSIVE bit_xor(_, _)
bit_xor(a, b) ==
    IF a = 0 THEN b ELSE IF b = 0 THEN a
    ELSE ((a + b) % 2) + 2 * bit_xor(a \div 2, b \div 2)

\* while xor: distance += 1; xor &= xor - 1
RECURSIVE count_bits(_)
count_bits(xor) == IF xor = 0 THEN 0 ELSE 1 + count_bits(bit_and(xor, xor - 1))

hamming_distance(hash1, hash2) == count_bits(bit_xor(hash1, hash2))

RECURSIVE Pow2(_)
Pow2(n) == IF n = 0 THEN 1 ELSE 2 * Pow2(n - 1)

\* the values calculate_simhash can return (bit_length bits)
Fingerprints == 0..(Pow2(FingerprintBits) - 1)

is_duplicate_within(simhash, seen_hashes) ==
    \E seen_hash \in seen_hashes : hamming_distance(simhash, seen_hash) <= DUP_DISTANCE

\* for seen_hash in seen_hashes: if hamming_distance(...) < 3: is_duplicate = True
is_duplicate(simhash, seen_hashes) ==
    \E seen_hash \in seen_hashes : hamming_distance(simhash, seen_hash) < DUP_DISTANCE

\* one iteration of "for article in raw_articles" (articles are named by
\* their position in raw_articles)
DedupStep ==
    /\ batch.op \in {"fetched", "dedup"}
    /\ batch.i < Len(batch.raw_articles)
    /\ LET n == batch.i + 1
           simhash == batch.raw_articles[n]
       IN IF is_duplicate(simhash, batch.seen_hashes)
          THEN batch' = [batch EXCEPT !.op = "dedup", !.i = n]
          ELSE batch' = [batch EXCEPT !.op = "dedup", !.i = n,
                                      !.seen_hashes = @ \cup {simhash},
                                      !.normalized_articles = Append(@, n)]
    /\ UNCHANGED <<dbVars, pw, url, chat>>

-----------------------------------------------------------------------------
(* st_financial_friend_v1/v2/v3.py and st_financial_Friend_v4.py: glossary lookup *)

\* GLOSSARY.keys() of v1, v2 and v3, in dictionary order
\* (기준금리, 금융통화위원회, 인플레이션, 코스피, 환율)
GLOSSARY_KEYS == <<"base_rate", "monetary_policy_committee", "inflation", "kospi", "exchange_rate">>

\* related_terms of the glossary entries that are no keys, and a free word
OtherTerms == {"monetary_policy", "bank_of_korea", "prices", "cpi", "stocks",
               "stock_market", "kosdaq", "fx_market", "dollar", "trade", "bitcoin"}

\* st.session_state.financial_terms.keys() of v4, in dictionary order
\* (양적완화, 기준금리, 배당, PER, 환율)
FINANCIAL_TERMS_KEYS == <<"quantitative_easing", "base_rate", "dividend", "per", "exchange_rate">>

\* USE_OPENAI = False
USE_OPENAI == FALSE

Range(q) == {q[i] : i \in DOMAIN q}

\* random.sample(population, k) for k <= len(population): k distinct
\* elements in any order
random_sample(population, k) ==
    { [i \in 1..k |-> population[q[i]]] :
         q \in { r \in [1..k -> DOMAIN population] :
                   \A i, j \in 1..k : i # j => r[i] # r[j] } }

\* random.choices(population, k=k): k elements drawn with replacement
random_choices(population, k) ==
    { [i \in 1..k |-> population[q[i]]] : q \in [1..k -> DOMAIN population] }

\* GLOSSARY[t]['definition'] for every suggested term (KeyError for no key)
definitions_of(similar) ==
    IF \A i \in DOMAIN similar : similar[i] \in Range(GLOSSARY_KEYS)
    THEN "ok" ELSE "KeyError"

suggest_with_replacement(term) ==
    { [similar |-> SelectSeq(q, LAMBDA t : t # term), raised |-> definitions_of(q)] :
        q \in random_choices(GLOSSARY_KEYS, Min(2, Len(GLOSSARY_KEYS))) }

\* v1 find_similar_terms; the else branch of v2 and v3 generate_term_explanation
\* (which does not filter "t != term"): the possible suggestion lists
find_similar_terms(term) ==
    LET k == Min(2, Len(GLOSSARY_KEYS))
    IN IF k > Len(GLOSSARY_KEYS)      \* random.sample raises ValueError
       THEN { [similar |-> <<>>, raised |-> "ValueError"] }
       ELSE { [similar |-> SelectSeq(q, LAMBDA t : t # term), raised |-> definitions_of(q)] :
                q \in random_sample(GLOSSARY_KEYS, k) }

\* v1 render_glossary_sidebar, v2 / v3 generate_term_explanation
LookupTerm(version, term) ==
    /\ chat.version = version
    /\ version \in {1, 2, 3}
    /\ IF term \in Range(GLOSSARY_KEYS)          \* get_term_definition(term)
       THEN chat' = [chat EXCEPT !.op = "definition", !.input = <<term>>,
                                 !.similar = <<>>, !.raised = "ok", !.listed = <<>>]
       ELSE \E r \in find_similar_terms(term) :
               chat' = [chat EXCEPT !.op = "fallback", !.input = <<term>>,
                                    !.similar = r.similar, !.raised = r.raised,
                                    !.listed = <<>>]
    /\ UNCHANGED <<dbVars, pw, url, batch>>

\* v4 explain_term, mock path unless the hosted path is switched on; context
\* is chat_history[-4:], the messages sent between the system prompt and the
\* question (when the call raises, the mock text is returned after it)
explain_term(term, chat_history) ==
    IF term \in Range(FINANCIAL_TERMS_KEYS)
    THEN IF chat.use_openai
         THEN [kind |-> "hosted", term |-> term, context |-> SubSeq(chat_history,
                  IF Len(chat_history) > 4 THEN Len(chat_history) - 3 ELSE 1, Len(chat_history))]
         ELSE [kind |-> "mock", term |-> term, context |-> <<>>]
    ELSE [kind |-> "not_in_dictionary", term |-> term, context |-> <<>>]

\* a mutant: the free chat forwards chat_history[-4:] as explain_term does
free_chat_context_window(chat_history) ==
    SubSeq(chat_history, IF Len(chat_history) > 4 THEN Len(chat_history) - 3 ELSE 1,
           Len(chat_history))

\* the messages the free chat sends after the system prompt:
\* [system] + st.session_state.chat_history
free_chat_context(chat_history) == chat_history

\* v4 chat input handling: user_input is a sequence of words; "term in
\* user_input" holds when the word occurs in it.  calls counts the calls of
\* client.chat.completions.create, forwarded is the context of the call
ChatInput(user_input) ==
    /\ chat.version = 4
    /\ Len(chat.chat_history) + 2 <= MaxTurns
    /\ LET found == { i \in DOMAIN FINANCIAL_TERMS_KEYS :
                        FINANCIAL_TERMS_KEYS[i] \in Range(user_input) }
           history == Append(chat.chat_history, [role |-> "user", content |-> user_input])
       IN IF found # {}
          THEN LET found_term == FINANCIAL_TERMS_KEYS[CHOOSE i \in found : \A j \in found : i <= j]
                   explanation == explain_term(found_term, history)
               IN chat' = [chat EXCEPT !.op = explanation.kind,
                                       !.input = user_input, !.similar = <<found_term>>,
                                       !.raised = "ok", !.listed = <<>>,
                                       !.calls = IF explanation.kind = "hosted" THEN 1 ELSE 0,
                                       !.forwarded = explanation.context,
                                       !.chat_history = Append(history,
                                           [role |-> "assistant", content |-> <<explanation.kind>>])]
          ELSE IF chat.use_openai
          THEN chat' = [chat EXCEPT !.op = "free_chat", !.input = user_input,
                                    !.similar = <<>>, !.raised = "ok", !.listed = <<>>,
                                    !.calls = 1,
                                    !.forwarded = free_chat_context(history),
                                    !.chat_history = Append(history,
                                        [role |-> "assistant", content |-> <<"free_chat">>])]
          ELSE chat' = [chat EXCEPT !.op = "unmatched", !.input = user_input,
                                    !.similar = <<>>, !.raised = "ok",
                                    !.listed = FINANCIAL_TERMS_KEYS,
                                    !.calls = 0, !.forwarded = <<>>,
                                    !.chat_history = Append(history,
                                        [role |-> "assistant", content |-> <<"unmatched">>])]
    /\ UNCHANGED <<dbVars, pw, url, batch>>

\* v4: the button of a term of the selected article
TermButton(term) ==
    /\ chat.version = 4
    /\ Len(chat.chat_history) + 2 <= MaxTurns
    /\ LET history == Append(chat.chat_history, [role |-> "user", content |-> <<term>>])
           explanation == explain_term(term, history)
       IN chat' = [chat EXCEPT !.op = explanation.kind,
                               !.input = <<term>>, !.similar = <<term>>,
                               !.raised = "ok", !.listed = <<>>,
                               !.calls = IF explanation.kind = "hosted" THEN 1 ELSE 0,
                               !.forwarded = explanation.context,
                               !.chat_history = Append(history,
                                   [role |-> "assistant", content |-> <<explanation.kind>>])]
    /\ UNCHANGED <<dbVars, pw, url, batch>>

\* v4 generate_summary: one call with the system prompt and the news texts
GenerateSummary ==
    /\ chat.version = 4
    /\ chat' = [chat EXCEPT !.op = "summary", !.input = <<>>, !.similar = <<>>,
                            !.raised = "ok", !.listed = <<>>,
                            !.calls = IF chat.use_openai THEN 1 ELSE 0,
                            !.forwarded = <<>>]
    /\ UNCHANGED <<dbVars, pw, url, batch>>

\* v4: the button that clears the chat
ClearChat ==
    /\ chat.version = 4
    /\ chat.chat_history # <<>>
    /\ chat' = [chat EXCEPT !.op = "clear", !.input = <<>>, !.similar = <<>>,
                            !.raised = "ok", !.listed = <<>>,
                            !.calls = 0, !.forwarded = <<>>, !.chat_history = <<>>]
    /\ UNCHANGED <<dbVars, pw, url, batch>>

-----------------------------------------------------------------------------
(* utils.py: hashing a password, then verifying candidates against it *)

PwChars == {"a", "$"}
StoredChars == {"a", "1", "$"}

HashPassword(salt) ==
    /\ pw.op = "input"
    /\ pw' = [pw EXCEPT !.op = "hash_password",
                        !.hashed = hash_password(pw.password, salt)]
    /\ UNCHANGED <<dbVars, url, batch, chat>>

\* verify a candidate against the value hash_password returned
VerifyHashed(candidate) ==
    /\ pw.op = "hash_password"
    /\ pw' = [pw EXCEPT !.op = "verify_hashed", !.candidate = candidate,
                        !.result = verify_password(candidate, pw.hashed)]
    /\ UNCHANGED <<dbVars, url, batch, chat>>

\* verify a candidate against an arbitrary stored value
VerifyStored(candidate, stored) ==
    /\ pw.op = "input"
    /\ pw' = [pw EXCEPT !.op = "verify_stored", !.candidate = candidate,
                        !.hashed = stored,
                        !.result = verify_password(candidate, stored)]
    /\ UNCHANGED <<dbVars, url, batch, chat>>

-----------------------------------------------------------------------------
(* st_news_agent_draft_v1.py and st_news_agent_draft_v2.py: estimate_tokens *)

\* KOREAN_CHAR_TO_TOKEN_RATIO = 2.0, as the fraction 2/1
KOREAN_CHAR_TO_TOKEN_RATIO == [num |-> 2, den |-> 1]

\* the float literal 0.5 of v1, as the fraction 1/2 (exact in binary)
HALF == [num |-> 1, den |-> 2]

\* int * float and int / float: both are exact for the lengths of a text
\* (below 2^53), so a float is the fraction it stands for
float_mul(n, x) == [num |-> n * x.num, den |-> x.den]
float_div(n, x) == [num |-> n * x.den, den |-> x.num]

\* int(x): truncation towards zero
int_of_float(x) ==
    IF x.num >= 0 THEN x.num \div x.den ELSE -((-x.num) \div x.den)

\* int(x + 0.5)
estimate_tokens_rounded(text) ==
    int_of_float([num |-> 2 * float_mul(Len(text), HALF).num + float_mul(Len(text), HALF).den,
                  den |-> 2 * float_mul(Len(text), HALF).den])

\* v1: int(len(text) * 0.5)
estimate_tokens_v1(text) == int_of_float(float_mul(Len(text), HALF))

\* v2: int(char_count / KOREAN_CHAR_TO_TOKEN_RATIO)
estimate_tokens_v2(text) == int_of_float(float_div(Len(text), KOREAN_CHAR_TO_TOKEN_RATIO))

EstimateTokens(version) ==
    /\ batch.op = "text"
    /\ batch' = [batch EXCEPT !.op = "estimate_tokens", !.version = version,
                              !.tokens = IF version = 1
                                         THEN estimate_tokens_v1(batch.text)
                                         ELSE estimate_tokens_v2(batch.text)]
    /\ UNCHANGED <<dbVars, pw, url, chat>>

-----------------------------------------------------------------------------
(* routers/dialogues.py *)

SenderTypes == {"user", "assistant"}
Contents == {"hello"}

create_dialogue(session_id, sender_type, content) ==
    /\ IF first(sessions, session_id) = <<>>
       THEN /\ resp' = Response("create_dialogue", 0, HTTP_404_NOT_FOUND, "Session not found", <<>>)
            /\ UNCHANGED <<dialogues, dialogue_seq>>
       ELSE LET db_dialogue == [session_id |-> session_id, sender_type |-> sender_type,
                                content |-> content, intent |-> NoneStr,
                                created_at |-> now]
            IN /\ dialogue_seq' = dialogue_seq + 1
               /\ dialogues' = add_row(dialogues, dialogue_seq + 1, db_dialogue)
               /\ resp' = Response("create_dialogue", dialogue_seq + 1, HTTP_201_CREATED, "", <<db_dialogue>>)
    /\ UNCHANGED <<now, users, news, sessions, session_seq, tasks, task_seq,
                   interactions, schema, txn, protoVars>>

\* list(reversed(dialogues))
reversed(s) == [i \in 1..Len(s) |-> s[Len(s) + 1 - i]]

\* filter(session_id).order_by(desc(created_at)).limit(n).all(), reversed: the
\* ids of the rows in every order the database may give rows of one created_at
recent_dialogues(session_id, n) ==
    { reversed(offset_limit(q, 0, n)) :
        q \in order_by_created_desc(dialogues,
                 {k \in DOMAIN dialogues : dialogues[k].session_id = session_id}) }

get_session_history(session_id, limit) ==
    /\ \E d \in recent_dialogues(session_id, limit) :
          resp' = WithArgs(Response("get_session_history", session_id, HTTP_200_OK, "",
                                    [i \in DOMAIN d |->
                                       [id |-> d[i],
                                        sender_type |-> dialogues[d[i]].sender_type,
                                        content |-> dialogues[d[i]].content,
                                        created_at |-> dialogues[d[i]].created_at]]),
                           <<session_id, limit>>)
    /\ UNCHANGED <<now, users, news, sessions, session_seq, tasks, task_seq,
                   auxVars, protoVars>>

get_conversation_context(session_id, message_count) ==
    /\ \E d \in recent_dialogues(session_id, message_count) :
          resp' = WithArgs(Response("get_conversation_context", session_id, HTTP_200_OK, "",
                                    <<[session_id |-> session_id,
                                       message_count |-> Len(d),
                                       messages |-> [i \in DOMAIN d |->
                                          [role |-> dialogues[d[i]].sender_type,
                                           content |-> dialogues[d[i]].content,
                                           timestamp |-> dialogues[d[i]].created_at]]]>>),
                           <<session_id, message_count>>)
    /\ UNCHANGED <<now, users, news, sessions, session_seq, tasks, task_seq,
                   auxVars, protoVars>>

\* db.delete(dialogue): the cascade of Dialogue.agent_tasks deletes the agent
\* tasks of the dialogue with it
delete_dialogue(dialogue_id) ==
    /\ IF first(dialogues, dialogue_id) = <<>>
       THEN /\ resp' = Response("delete_dialogue", dialogue_id, HTTP_404_NOT_FOUND, "Dialogue not found", <<>>)
            /\ UNCHANGED <<dialogues, tasks>>
       ELSE /\ dialogues' = delete_row(dialogues, dialogue_id)
            /\ tasks' = [k \in {t \in DOMAIN tasks : tasks[t].dialogue_id # dialogue_id} |-> tasks[k]]
            /\ resp' = Response("delete_dialogue", dialogue_id, HTTP_204_NO_CONTENT, "", <<>>)
    /\ UNCHANGED <<now, users, news, sessions, session_seq, task_seq, dialogue_seq,
                   interactions, schema, txn, protoVars>>

-----------------------------------------------------------------------------
(* api_test.py: create_interaction, on the tables of either schema draft *)

\* db_schema_design.py (draft A) and db_schema_design_claude.py (draft B)
SchemaDrafts == {"A", "B"}

InteractionTypes == {"click", "view"}

\* idx_unique_interaction of draft B: unique (user_id, news_id, interaction_type);
\* draft A declares no such index
idx_unique_interaction(user_id, news_id, interaction_type) ==
    schema = "B" =>
       ~\E k \in DOMAIN interactions :
           /\ interactions[k].user_id = user_id
           /\ interactions[k].news_id = news_id
           /\ interactions[k].interaction_type = interaction_type

create_interaction_no_index(news_id, interaction_type, user_id) ==
    /\ Len(interactions) < MaxInteractions
    /\ LET key == <<user_id, news_id, interaction_type>>
       IN IF first(news, news_id) = <<>>
          THEN /\ resp' = CreateResponse("create_interaction", 0, HTTP_404_NOT_FOUND, "News not found", <<>>, key)
               /\ UNCHANGED interactions
          ELSE IF ~user_exists(user_id)
          THEN /\ resp' = CreateResponse("create_interaction", 0, HTTP_500_INTERNAL, "IntegrityError", <<>>, key)
               /\ UNCHANGED interactions
          ELSE LET db_interaction == [user_id |-> user_id, news_id |-> news_id,
                                      interaction_type |-> interaction_type,
                                      created_at |-> now]
               IN /\ interactions' = Append(interactions, db_interaction)
                  /\ resp' = CreateResponse("create_interaction", Len(interactions) + 1,
                                            HTTP_201_CREATED, "", <<db_interaction>>, key)
    /\ UNCHANGED <<now, users, news, sessions, session_seq, tasks, task_seq,
                   dialogues, dialogue_seq, schema, txn, protoVars>>

\* the news lookup reads soft-deleted rows too; the foreign key on user_id
\* and, in draft B, the unique index reject the insert at commit
\* (IntegrityError, no row is stored)
create_interaction(news_id, interaction_type, user_id) ==
    /\ Len(interactions) < MaxInteractions
    /\ LET key == <<user_id, news_id, interaction_type>>
       IN IF first(news, news_id) = <<>>
          THEN /\ resp' = CreateResponse("create_interaction", 0, HTTP_404_NOT_FOUND, "News not found", <<>>, key)
               /\ UNCHANGED interactions
          ELSE IF ~user_exists(user_id) \/ ~idx_unique_interaction(user_id, news_id, interaction_type)
          THEN /\ resp' = CreateResponse("create_interaction", 0, HTTP_500_INTERNAL, "IntegrityError", <<>>, key)
               /\ UNCHANGED interactions
          ELSE LET db_interaction == [user_id |-> user_id, news_id |-> news_id,
                                      interaction_type |-> interaction_type,
                                      created_at |-> now]
               IN /\ interactions' = Append(interactions, db_interaction)
                  /\ resp' = CreateResponse("create_interaction", Len(interactions) + 1,
                                            HTTP_201_CREATED, "", <<db_interaction>>, key)
    /\ UNCHANGED <<now, users, news, sessions, session_seq, tasks, task_seq,
                   dialogues, dialogue_seq, schema, txn, protoVars>>

-----------------------------------------------------------------------------
(* st_news_agent_draft_v1.py: the batch run with its fingerprint dedup *)

\* the names of RSS_SOURCES, in order
RSS_SOURCES == <<"mk", "hankyung", "kbs">>

\* hashlib.md5(text.encode('utf-8')).hexdigest()[:16], taken as collision-free:
\* a hexadecimal string that distinct texts do not share
generate_simhash(text) == hex_of(text)

\* the entries a feed can hold: (title, link)
FeedTitles == {<<"a">>, <<"1">>}
FeedLinks == {<<"a">>, <<"1">>}
FeedEntries == [title : FeedTitles, link : FeedLinks]

\* fetch_rss_articles: the first max_articles entries, links normalized
fetch_rss_articles(source, entries, max_articles) ==
    [i \in 1..Min(Len(entries), max_articles) |->
        [source |-> source,
         url |-> normalize_url_v1(entries[i].link),
         title |-> entries[i].title]]

\* deduplicate_articles, from the article at position i on, with the hashes
\* seen so far
RECURSIVE deduplicate_from(_, _, _)
deduplicate_from(articles, i, seen_hashes) ==
    IF i > Len(articles) THEN <<>>
    ELSE LET article_hash == generate_simhash(articles[i].title \o articles[i].url)
         IN IF article_hash \notin seen_hashes
            THEN <<[source |-> articles[i].source, url |-> articles[i].url,
                    title |-> articles[i].title, simhash |-> article_hash]>>
                 \o deduplicate_from(articles, i + 1, seen_hashes \cup {article_hash})
            ELSE deduplicate_from(articles, i + 1, seen_hashes)

deduplicate_articles(articles, existing_hashes) ==
    deduplicate_from(articles, 1, existing_hashes)

\* article_id = f"{source}_{generate_simhash(url)}"
article_id_of(article) == <<article.source, generate_simhash(article.url)>>

\* the "for article in unique_articles" loop of run_batch_process from
\* position i on: INSERT OR REPLACE by article_id, the model_runs row, then
\* existing_hashes.add(simhash); db is [articles, existing_hashes].  run_id
\* is f"run_{milliseconds}_{article_id}": when an article_id comes twice
\* within one millisecond (same_ms) the second model_runs insert violates the
\* primary key and the exception ends the work on this source
RECURSIVE store_articles(_, _, _, _, _, _)
store_articles(db, unique_articles, i, created_at, ids, same_ms) ==
    IF i > Len(unique_articles) THEN db
    ELSE LET article == unique_articles[i]
             row == [source |-> article.source, url |-> article.url,
                     title |-> article.title, simhash |-> article.simhash,
                     created_at |-> created_at]
             id == article_id_of(article)
             replaced == [k \in DOMAIN db.articles \cup {id} |->
                            IF k = id THEN row ELSE db.articles[k]]
         IN IF same_ms /\ id \in ids
            THEN [articles |-> replaced, existing_hashes |-> db.existing_hashes]
            ELSE store_articles(
                    [articles |-> replaced,
                     existing_hashes |-> db.existing_hashes \cup {article.simhash}],
                    unique_articles, i + 1, created_at, ids \cup {id}, same_ms)

\* the "for source in RSS_SOURCES" loop from source n on
RECURSIVE collect_sources(_, _, _, _, _, _)
collect_sources(db, feeds, n, max_articles, created_at, same_ms) ==
    IF n > Len(RSS_SOURCES) THEN db
    ELSE LET raw_articles == fetch_rss_articles(RSS_SOURCES[n], feeds[n], max_articles)
             unique_articles == deduplicate_articles(raw_articles, db.existing_hashes)
         IN collect_sources(store_articles(db, unique_articles, 1, created_at, {}, same_ms),
                            feeds, n + 1, max_articles, created_at, same_ms)

\* run_batch_process: existing_hashes is read from the articles table once,
\* before the sources are collected; the feeds are the same on every run
run_batch_process(same_ms) ==
    /\ batch.op \in {"feeds", "run_batch_process"}
    /\ batch.runs < MaxRuns
    /\ LET existing_hashes == {batch.articles[k].simhash : k \in DOMAIN batch.articles}
           db == collect_sources([articles |-> batch.articles,
                                  existing_hashes |-> existing_hashes],
                                 batch.feeds, 1, MaxPerSource, batch.runs + 1, same_ms)
       IN batch' = [batch EXCEPT !.op = "run_batch_process",
                                 !.before = batch.articles,
                                 !.articles = db.articles,
                                 !.runs = @ + 1]
    /\ UNCHANGED <<dbVars, pw, url, chat>>

-----------------------------------------------------------------------------
(* st_news_agent_draft_v1.py: process_ondemand_query *)

\* "LIMIT 20" of the SELECT, relevant_articles[:5] and "len(...) < 5",
\* RSS_SOURCES[:2], fetch_rss_articles(source, 5) and raw_articles[:3]
ROW_LIMIT == 20
TOP_ARTICLES == 5
FALLBACK_SOURCES == 2
FALLBACK_FETCH == 5
FALLBACK_PER_SOURCE == 3

\* published_at is a TEXT column holding entry.published as the feed gave it
\* (RFC 822, "Wed, 04 Nov 2026 ...") or, for an entry without one,
\* datetime.now().isoformat() ("2026-11-04T..."); day counts the days since a
\* Monday.  SQLite compares the texts character by character: a digit sorts
\* before a letter, ISO texts sort by time, and RFC 822 texts sort by the
\* abbreviation of the weekday (Fri < Mon < Sat < Sun < Thu < Tue < Wed)
DateFormats == {"iso", "rfc822"}
weekday_rank(day) == <<1, 5, 6, 4, 0, 2, 3>>[(day % 7) + 1]
text_key(published_at) ==
    IF published_at.fmt = "iso" THEN <<0, published_at.day>>
    ELSE <<1 + weekday_rank(published_at.day), published_at.day>>

\* text a >= text b
text_ge(a, b) ==
    \/ text_key(a)[1] > text_key(b)[1]
    \/ text_key(a)[1] = text_key(b)[1] /\ text_key(a)[2] >= text_key(b)[2]

\* the words of a query; "x" is a word of one character
QueryWords == {"k1", "k2", "x"}
word_len(word) == IF word = "x" THEN 1 ELSE 2

\* keywords = [word.lower() for word in query.split() if len(word) > 1]
keywords_of(query) == SelectSeq(query, LAMBDA word : word_len(word) > 1)

\* sum(1 for kw in keywords if kw in title.lower() or kw in summary.lower()):
\* words is the set of query words the title or the summary contains
relevance_score(article, keywords) ==
    Cardinality({i \in DOMAIN keywords : keywords[i] \in article.words})

\* ORDER BY published_at DESC over a set of row ids
RECURSIVE order_by_published_at_desc(_, _)
order_by_published_at_desc(table, ids) ==
    IF ids = {} THEN <<>>
    ELSE LET m == CHOOSE x \in ids :
                     \A y \in ids : text_ge(table[x].published_at, table[y].published_at)
         IN <<m>> \o order_by_published_at_desc(table, ids \ {m})

\* SELECT * FROM articles WHERE published_at >= ? ORDER BY published_at DESC
\* LIMIT 20, with ? = (now - time_window).isoformat()
select_recent(table, today, time_window) ==
    LET cutoff == [fmt |-> "iso", day |-> today - time_window]
        q == order_by_published_at_desc(table,
                 {k \in DOMAIN table : text_ge(table[k].published_at, cutoff)})
    IN SubSeq(q, 1, Min(Len(q), ROW_LIMIT))

\* the "for row in rows" loop from position i on
RECURSIVE collect_relevant(_, _, _, _, _)
collect_relevant(table, rows, i, keywords, relevant_articles) ==
    IF i > Len(rows) THEN relevant_articles
    ELSE LET score == relevance_score(table[rows[i]], keywords)
         IN collect_relevant(table, rows, i + 1, keywords,
               IF score > 0 \/ Len(relevant_articles) < TOP_ARTICLES
               THEN Append(relevant_articles,
                           [origin |-> "stored", id |-> rows[i], relevance_score |-> score])
               ELSE relevant_articles)

\* list.sort(key=relevance_score, reverse=True): stable, scores from s down
RECURSIVE sort_by_score_desc(_, _)
sort_by_score_desc(articles, s) ==
    IF s < 0 THEN <<>>
    ELSE SelectSeq(articles, LAMBDA a : a.relevance_score = s)
         \o sort_by_score_desc(articles, s - 1)

\* the live fetch: raw_articles[:3] of fetch_rss_articles(source, 5) for the
\* sources from n on
RECURSIVE live_fetch(_, _)
live_fetch(feeds, n) ==
    IF n > Min(FALLBACK_SOURCES, Len(RSS_SOURCES)) THEN <<>>
    ELSE LET raw_articles == fetch_rss_articles(RSS_SOURCES[n], feeds[n], FALLBACK_FETCH)
         IN [i \in 1..Min(Len(raw_articles), FALLBACK_PER_SOURCE) |->
                [origin |-> RSS_SOURCES[n], id |-> i, relevance_score |-> 0]]
            \o live_fetch(feeds, n + 1)

process_ondemand_query(query, time_window) ==
    /\ batch.op \in {"stored", "process_ondemand_query"}
    /\ LET keywords == keywords_of(query)
           rows == select_recent(batch.articles, batch.today, time_window)
           relevant_articles == collect_relevant(batch.articles, rows, 1, keywords, <<>>)
           top_articles == SubSeq(sort_by_score_desc(relevant_articles, Len(keywords)),
                                  1, Min(Len(relevant_articles), TOP_ARTICLES))
       IN batch' = [batch EXCEPT
                       !.op = "process_ondemand_query",
                       !.query = query,
                       !.rows = rows,
                       !.fetched = IF Len(top_articles) = 0
                                   THEN Min(FALLBACK_SOURCES, Len(RSS_SOURCES)) ELSE 0,
                       !.top_articles = IF Len(top_articles) = 0
                                        THEN live_fetch(batch.feeds, 1)
                                        ELSE top_articles]
    /\ UNCHANGED <<dbVars, pw, url, chat>>

-----------------------------------------------------------------------------
(* st_financial_friend_v3.py: one script run per page load or interaction.
   A page load over a URL (a link of the page, or a typed URL) starts a new
   Streamlit session, whose session state is empty; an interaction with a
   widget reruns the script in the same session *)

\* NEWS_ARTICLES: article['terms'] by article['id']
ARTICLE_TERMS == <<{"monetary_policy_committee", "base_rate", "inflation"},
                   {"kospi"},
                   {"exchange_rate", "inflation"}>>

\* int(text) for the texts of the model; None stands for ValueError
int_of_text(text) ==
    CASE text = "1" -> 1 [] text = "2" -> 2 [] text = "3" -> 3 [] text = "9" -> 9
      [] OTHER -> None

\* urllib.parse.unquote: "%41" is the escape of "A"
unquote(text) == IF text = "%41" THEN "A" ELSE text

\* st.experimental_get_query_params(): the values of article_id and of term
query_params(article_id, term) == [article_id |-> article_id, term |-> term]

GREETING == [role |-> "assistant", kind |-> "greeting", term |-> "", similar |-> <<>>]

\* the explanations generate_term_explanation may return for a term
generate_term_explanation(term) ==
    IF term \in Range(GLOSSARY_KEYS)
    THEN { [role |-> "assistant", kind |-> "definition", term |-> term, similar |-> <<>>] }
    ELSE { [role |-> "assistant", kind |-> "fallback", term |-> term, similar |-> r.similar] :
             r \in find_similar_terms(term) }

\* "Initialize session state": a key is set when the session has none
init_session_state(session_state) ==
    IF session_state.fresh
    THEN [fresh |-> FALSE, selected_article |-> None, chat_history |-> <<GREETING>>,
          show_settings |-> FALSE]
    ELSE session_state

\* a mutant: the term branch does not clear the query params
handle_query_params_keep(session_state, params) ==
    LET aid == IF params.article_id # NoneStr
               THEN int_of_text(params.article_id)
               ELSE session_state.selected_article
    IN IF params.term # NoneStr
       THEN { [session_state |->
                 [session_state EXCEPT
                    !.selected_article = aid,
                    !.chat_history = @ \o <<[role |-> "user", kind |-> "question",
                                             term |-> unquote(params.term),
                                             similar |-> <<>>],
                                            explanation>>],
               params |-> params] :
                explanation \in generate_term_explanation(unquote(params.term)) }
       ELSE { [session_state |-> [session_state EXCEPT !.selected_article = aid],
               params |-> params] }

\* "Query params handling": the session state and the query params after it
handle_query_params(session_state, params) ==
    LET aid == IF params.article_id # NoneStr
               THEN int_of_text(params.article_id)   \* except: None
               ELSE session_state.selected_article
    IN IF params.term # NoneStr
       THEN { [session_state |->
                 [session_state EXCEPT
                    !.selected_article = aid,
                    !.chat_history = @ \o <<[role |-> "user", kind |-> "question",
                                             term |-> unquote(params.term),
                                             similar |-> <<>>],
                                            explanation>>],
               params |-> query_params(NoneStr, NoneStr)] :  \* st.experimental_set_query_params()
                explanation \in generate_term_explanation(unquote(params.term)) }
       ELSE { [session_state |-> [session_state EXCEPT !.selected_article = aid],
               params |-> params] }

\* the layout switch, and what render_article_view shows for the selection
view_of(session_state) ==
    IF session_state.selected_article = None THEN "list"
    ELSE IF session_state.selected_article \in DOMAIN ARTICLE_TERMS THEN "article"
    ELSE "not_found"

\* one run of the script
run_script(op, session_state, params, request) ==
    /\ \E r \in handle_query_params(init_session_state(session_state), params) :
          chat' = [op |-> op, request |-> request, session_state |-> r.session_state,
                   params |-> r.params, view |-> view_of(r.session_state)]
    /\ UNCHANGED <<dbVars, pw, url, batch>>

\* a mutant: a page load that goes on in the session of the page left
page_load_same_session(op, params) == run_script(op, chat.session_state, params, params)

\* a page load: a new session, the query params are those of the URL
page_load(op, params) == run_script(op, [fresh |-> TRUE], params, params)

\* a click on a news card of the list: href='?article_id={id}'
click_card(article_id_text) ==
    /\ chat.view = "list"
    /\ int_of_text(article_id_text) \in DOMAIN ARTICLE_TERMS
    /\ page_load("click_card", query_params(article_id_text, NoneStr))

\* a click on a term of the article: href='?article_id={article_id}&term={term}'
click_term(article_id_text, term) ==
    /\ chat.view = "article"
    /\ int_of_text(article_id_text) = chat.session_state.selected_article
    /\ term \in ARTICLE_TERMS[chat.session_state.selected_article]
    /\ page_load("click_term", query_params(article_id_text, term))

\* a click on the back link of the article: href='?'
click_back ==
    /\ chat.view = "article"
    /\ page_load("click_back", query_params(NoneStr, NoneStr))

\* a URL typed by hand
open_url(article_id_text, term) ==
    page_load("open_url", query_params(article_id_text, term))

\* the settings button of the header: a rerun in the same session
toggle_settings ==
    /\ chat.op # "start"
    /\ run_script("rerun",
                  [chat.session_state EXCEPT !.show_settings = ~@],
                  chat.params, query_params(NoneStr, NoneStr))

\* st.chat_input in either layout, then st.experimental_rerun()
chat_input_v3(user_input) ==
    /\ chat.op # "start"
    /\ Len(chat.session_state.chat_history) < MaxHistory
    /\ LET found == { i \in DOMAIN GLOSSARY_KEYS : GLOSSARY_KEYS[i] \in Range(user_input) }
           canned == [role |-> "assistant", kind |-> "canned", term |-> "", similar |-> <<>>]
           answers ==
              IF chat.session_state.selected_article = None
              THEN IF Len(user_input) = 1 /\ user_input[1] \in Range(GLOSSARY_KEYS)
                   THEN generate_term_explanation(user_input[1])
                   ELSE {canned}
              ELSE IF found # {}
                   THEN generate_term_explanation(
                           GLOSSARY_KEYS[CHOOSE i \in found : \A j \in found : i <= j])
                   ELSE {canned}
       IN \E resp_v3 \in answers :
             run_script("chat_input",
                        [chat.session_state EXCEPT
                           !.chat_history = @ \o <<[role |-> "user", kind |-> "input",
                                                    term |-> "", similar |-> <<>>],
                                                   resp_v3>>],
                        chat.params, query_params(NoneStr, NoneStr))

-----------------------------------------------------------------------------
(* Two requests handled at once.  A handler reads with db.query(...).first(),
   changes the object it loaded, and db.commit() flushes the change and
   commits it in one step (autoflush is off); between the read of one request
   and its commit the other request may read or commit *)

dbRest == <<now, news, sessions, session_seq, task_seq, dialogues, dialogue_seq,
            interactions, schema, protoVars>>

begin(r, op, id, arg, loaded) ==
    [txn EXCEPT ![r] = [op |-> op, pc |-> "loaded", id |-> id, arg |-> arg,
                        loaded |-> loaded, code |-> 0, seq |-> 0]]

\* the request is answered; seq numbers the commits
finish(r, op, id, arg, loaded, code) ==
    [txn EXCEPT ![r] = [op |-> op, pc |-> "done", id |-> id, arg |-> arg,
                        loaded |-> loaded, code |-> code,
                        seq |-> 1 + Cardinality({q \in Requests : txn[q].seq > 0})]]

\* the UPDATE a flush emits: the columns whose value on the object differs
\* from the value loaded, written onto the row as it is now
flush(row, loaded, object) ==
    [f \in DOMAIN row |-> IF object[f] # loaded[f] THEN object[f] ELSE row[f]]

\* update_user up to the query
update_user_read(r, user_id, user_update) ==
    /\ txn[r].pc = "idle"
    /\ LET user == first_live(users, user_id)
       IN IF user = <<>>
          THEN /\ txn' = finish(r, "update_user", user_id, <<user_update>>, <<>>,
                                HTTP_404_NOT_FOUND)
               /\ resp' = Response("update_user", user_id, HTTP_404_NOT_FOUND,
                                   "User not found", <<>>)
          ELSE /\ txn' = begin(r, "update_user", user_id, <<user_update>>, user)
               /\ UNCHANGED resp
    /\ UNCHANGED <<users, tasks, dbRest>>

\* update_user from the setattr loop on: commit and refresh
update_user_commit(r) ==
    /\ txn[r].op = "update_user" /\ txn[r].pc = "loaded"
    /\ LET t == txn[r]
           user == [apply_update(t.loaded[1], t.arg[1]) EXCEPT !.updated_at = now]
           row == flush(users[t.id], t.loaded[1], user)
       IN IF users_unique_ok(users, t.id, row)
          THEN /\ users' = [users EXCEPT ![t.id] = row]
               /\ txn' = finish(r, t.op, t.id, t.arg, t.loaded, HTTP_200_OK)
               /\ resp' = Response("update_user", t.id, HTTP_200_OK, "", <<row>>)
          ELSE /\ txn' = finish(r, t.op, t.id, t.arg, t.loaded, HTTP_500_INTERNAL)
               /\ resp' = Response("update_user", t.id, HTTP_500_INTERNAL,
                                   "IntegrityError", <<>>)
               /\ UNCHANGED users
    /\ UNCHANGED <<tasks, dbRest>>

\* start_agent_task up to the check of the status
start_agent_task_read(r, task_id) ==
    /\ txn[r].pc = "idle"
    /\ LET task == first(tasks, task_id)
       IN IF task = <<>>
          THEN /\ txn' = finish(r, "start_agent_task", task_id, <<>>, <<>>,
                                HTTP_404_NOT_FOUND)
               /\ resp' = Response("start_agent_task", task_id, HTTP_404_NOT_FOUND,
                                   "Task not found", <<>>)
          ELSE IF task[1].status # "pending"
          THEN /\ txn' = finish(r, "start_agent_task", task_id, <<>>, task,
                                HTTP_400_BAD_REQUEST)
               /\ resp' = Response("start_agent_task", task_id, HTTP_400_BAD_REQUEST,
                                   task[1].status, <<>>)
          ELSE /\ txn' = begin(r, "start_agent_task", task_id, <<>>, task)
               /\ UNCHANGED resp
    /\ UNCHANGED <<users, tasks, dbRest>>

\* start_agent_task from "task.status = TaskStatus.IN_PROGRESS" on
start_agent_task_commit(r) ==
    /\ txn[r].op = "start_agent_task" /\ txn[r].pc = "loaded"
    /\ LET t == txn[r]
           task == flush(tasks[t.id], t.loaded[1],
                         [t.loaded[1] EXCEPT !.status = "in_progress"])
       IN /\ tasks' = [tasks EXCEPT ![t.id] = task]
          /\ txn' = finish(r, t.op, t.id, t.arg, t.loaded, HTTP_200_OK)
          /\ resp' = task_response("start_agent_task", t.id, task)
    /\ UNCHANGED <<users, dbRest>>

\* create_user up to the check of the e-mail
create_user_check(r, user) ==
    /\ txn[r].pc = "idle"
    /\ IF \E k \in DOMAIN users : users[k].email = user.email
       THEN /\ txn' = finish(r, "create_user", 0, <<user>>, <<>>, HTTP_400_BAD_REQUEST)
            /\ resp' = CreateResponse("create_user", 0, HTTP_400_BAD_REQUEST,
                                      "Email already registered", <<>>, user.email)
       ELSE /\ txn' = begin(r, "create_user", 0, <<user>>, <<>>)
            /\ UNCHANGED resp
    /\ UNCHANGED <<users, tasks, dbRest>>

\* create_user from hash_password on: the INSERT, under the unique
\* constraints of users.email and users.username
create_user_insert(r, salt) ==
    /\ txn[r].op = "create_user" /\ txn[r].pc = "loaded"
    /\ LET t == txn[r]
           user == t.arg[1]
           db_user == [email |-> user.email, username |-> user.username,
                       user_type |-> user.user_type,
                       password_hash |-> hash_password(user.password, salt),
                       created_at |-> now, updated_at |-> now,
                       last_active_at |-> None, deleted_at |-> None]
       IN IF users_unique_ok(users, 0, db_user)
          THEN /\ Len(users) < MaxUsers
               /\ users' = Append(users, db_user)
               /\ txn' = finish(r, t.op, Len(users) + 1, t.arg, t.loaded, HTTP_201_CREATED)
               /\ resp' = CreateResponse("create_user", Len(users) + 1, HTTP_201_CREATED,
                                         "", <<db_user>>, user.email)
          ELSE /\ txn' = finish(r, t.op, 0, t.arg, t.loaded, HTTP_500_INTERNAL)
               /\ resp' = CreateResponse("create_user", 0, HTTP_500_INTERNAL,
                                         "IntegrityError", <<>>, user.email)
               /\ UNCHANGED users
    /\ UNCHANGED <<tasks, dbRest>>

-----------------------------------------------------------------------------
(* The agent-task service: one session and one agent exist, no task yet *)

\* no dialogue and no interaction stored; database.py creates the tables from
\* db_schema_design.py (draft A)
AuxIdle ==
    /\ dialogues = << >>
    /\ dialogue_seq = 0
    /\ interactions = <<>>
    /\ schema = "A"
    /\ txn = NoTxn

ProtoIdle ==
    /\ pw = [op |-> "none"]
    /\ url = [op |-> "none"]
    /\ batch = [op |-> "none"]
    /\ chat = [op |-> "none"]

InitTasks ==
    /\ now = 0
    /\ users = <<>>
    /\ news = <<>>
    /\ sessions = (1 :> [user_id |-> 1, session_token |-> generate_session_token(1),
                          context |-> NoneStr, created_at |-> 0,
                          expires_at |-> LEASE_HOURS])
    /\ session_seq = 1
    /\ tasks = << >>
    /\ task_seq = 0
    /\ AuxIdle
    /\ resp = NoResponse
    /\ ProtoIdle

NextTasks ==
    \/ \E a \in AgentIds, s \in SessionIds, d \in {None} \cup DialogueIds, i \in Inputs :
          create_agent_task(a, s, d, i)
    \/ \E t \in TaskIds : get_agent_task(t)
    \/ \E t \in TaskIds, u \in AgentTaskUpdate : update_agent_task(t, u)
    \/ \E t \in TaskIds : start_agent_task(t)
    \/ \E t \in TaskIds, o \in Outputs, d \in Durations : complete_agent_task(t, o, d)
    \/ \E t \in TaskIds, e \in Errors, d \in Durations \cup {None} : fail_agent_task(t, e, d)
    \/ \E t \in TaskIds : delete_agent_task(t)

SpecTasks == InitTasks /\ [][NextTasks]_vars

-----------------------------------------------------------------------------
(* The session service: one user exists, no session yet; the clock runs *)

InitSessions ==
    /\ now = 0
    /\ users = <<[email |-> "a@x.com", username |-> NoneStr, user_type |-> "user",
                  password_hash |-> hash_password(<<"a", "1">>, <<"a">>), created_at |-> 0, updated_at |-> 0,
                  last_active_at |-> None, deleted_at |-> None]>>
    /\ news = <<>>
    /\ sessions = << >>
    /\ session_seq = 0
    /\ tasks = << >>
    /\ task_seq = 0
    /\ AuxIdle
    /\ resp = NoResponse
    /\ ProtoIdle

NextSessions ==
    \/ \E u \in UserIds, c \in Contexts, d \in ClockSkews : create_session(u, c, d)
    \/ \E u \in UserIds, sk \in Skips, l \in Limits : get_sessions(u, sk, l)
    \/ \E s \in SessionIds : get_session(s)
    \/ \E t \in Tokens : get_session_by_token(t)
    \/ \E s \in SessionIds, c \in Contexts : update_session_context(s, c)
    \/ \E s \in SessionIds : refresh_session(s)
    \/ \E s \in SessionIds : delete_session(s)
    \/ \E u \in UserIds : delete_user_sessions(u)
    \/ Tick

SpecSessions == InitSessions /\ [][NextSessions]_vars

-----------------------------------------------------------------------------
(* The users and news service on an empty store *)

InitStore ==
    /\ now = 0
    /\ users = <<>>
    /\ news = <<>>
    /\ sessions = << >>
    /\ session_seq = 0
    /\ tasks = << >>
    /\ task_seq = 0
    /\ AuxIdle
    /\ resp = NoResponse
    /\ ProtoIdle

NextStore ==
    \/ \E u \in UserCreate, salt \in UserSalts : create_user(u, salt)
    \/ \E sk \in Skips, l \in Limits : get_users(sk, l)
    \/ \E u \in UserIds : get_user(u)
    \/ \E u \in UserIds, up \in UserUpdate : update_user(u, up)
    \/ \E u \in UserIds : delete_user(u)
    \/ \E u \in UserIds : activate_user(u)
    \/ \E n \in NewsCreate : create_news(n)
    \/ \E sk \in Skips, l \in Limits : get_news_list(sk, l)
    \/ \E n \in NewsIds : get_news(n)
    \/ \E n \in NewsIds, up \in NewsUpdate : update_news(n, up)
    \/ \E n \in NewsIds : delete_news(n)

SpecStore == InitStore /\ [][NextStore]_vars

-----------------------------------------------------------------------------
(* The prototype helpers, each on inputs drawn in the initial state *)

DbIdle ==
    /\ now = 0
    /\ users = <<>>
    /\ news = <<>>
    /\ sessions = << >>
    /\ session_seq = 0
    /\ tasks = << >>
    /\ task_seq = 0
    /\ AuxIdle
    /\ resp = NoResponse

InitPw ==
    /\ DbIdle
    /\ \E p \in StringsUpTo(PwChars, MaxPwLen) :
          pw = [op |-> "input", password |-> p, hashed |-> <<>>,
                candidate |-> <<>>, result |-> "none"]
    /\ url = [op |-> "none"]
    /\ batch = [op |-> "none"]
    /\ chat = [op |-> "none"]

NextPw ==
    \/ \E salt \in [1..SaltLen -> HexChars] : HashPassword(salt)
    \/ \E c \in StringsUpTo(PwChars, MaxPwLen) : VerifyHashed(c)
    \/ \E c \in StringsUpTo(PwChars, MaxPwLen), st \in StringsUpTo(StoredChars, MaxStoredLen) :
          VerifyStored(c, st)

SpecPw == InitPw /\ [][NextPw]_vars

InitUrl ==
    /\ DbIdle
    /\ pw = [op |-> "none"]
    /\ \E v \in {1, 2}, u \in StringsUpTo(UrlChars, MaxUrlLen) :
          url = [op |-> "input", version |-> v, u |-> u, prev |-> u, cur |-> u, count |-> 0]
    /\ batch = [op |-> "none"]
    /\ chat = [op |-> "none"]

NextUrl == Normalize

SpecUrl == InitUrl /\ [][NextUrl]_vars

InitDedup ==
    /\ DbIdle
    /\ pw = [op |-> "none"]
    /\ url = [op |-> "none"]
    /\ \E raw \in StringsUpTo(Fingerprints, MaxBatch) :
          batch = [op |-> "fetched", raw_articles |-> raw, i |-> 0,
                   seen_hashes |-> {}, normalized_articles |-> <<>>]
    /\ chat = [op |-> "none"]

NextDedup == DedupStep

SpecDedup == InitDedup /\ [][NextDedup]_vars

InitChat ==
    /\ DbIdle
    /\ pw = [op |-> "none"]
    /\ url = [op |-> "none"]
    /\ batch = [op |-> "none"]
    /\ \E v \in 1..4 :
          chat = [version |-> v, op |-> "start", input |-> <<>>, similar |-> <<>>,
                  raised |-> "ok", listed |-> <<>>, use_openai |-> USE_OPENAI,
                  calls |-> 0, forwarded |-> <<>>, chat_history |-> <<>>]

ChatWords == Range(FINANCIAL_TERMS_KEYS) \cup {"kospi", "bitcoin"}

NextChat ==
    \/ \E v \in {1, 2, 3}, t \in Range(GLOSSARY_KEYS) \cup OtherTerms : LookupTerm(v, t)
    \/ /\ chat.chat_history = <<>>
       /\ \E w \in StringsUpTo(ChatWords, 2) \ {<<>>} : ChatInput(w)

\* v4 with the flag as the repository sets it, or set to True as line 11
\* says to do when the API is connected
InitV4 ==
    /\ DbIdle
    /\ pw = [op |-> "none"]
    /\ url = [op |-> "none"]
    /\ batch = [op |-> "none"]
    /\ \E flag \in {USE_OPENAI, TRUE} :
          chat = [version |-> 4, op |-> "start", input |-> <<>>, similar |-> <<>>,
                  raised |-> "ok", listed |-> <<>>, use_openai |-> flag,
                  calls |-> 0, forwarded |-> <<>>, chat_history |-> <<>>]

NextV4 ==
    \/ \E w \in {<<"per">>, <<"hello">>} : ChatInput(w)
    \/ \E t \in {"dividend"} : TermButton(t)
    \/ GenerateSummary
    \/ ClearChat

SpecV4 == InitV4 /\ [][NextV4]_vars

SpecChat == InitChat /\ [][NextChat]_vars

\* the texts of every length up to the bound (the estimators read only len)
Texts == { [i \in 1..n |-> "a"] : n \in 0..MaxTextLen }

InitTokens ==
    /\ DbIdle
    /\ pw = [op |-> "none"]
    /\ url = [op |-> "none"]
    /\ \E t \in Texts : batch = [op |-> "text", text |-> t, version |-> 0, tokens |-> 0]
    /\ chat = [op |-> "none"]

NextTokens == \E v \in {1, 2} : EstimateTokens(v)

SpecTokens == InitTokens /\ [][NextTokens]_vars

-----------------------------------------------------------------------------
(* References to users and news: one user and one news item exist, the
   tables come from either schema draft *)

InitRefs ==
    /\ now = 0
    /\ users = <<[email |-> "a@x.com", username |-> NoneStr, user_type |-> "user",
                  password_hash |-> hash_password(<<"a", "1">>, <<"a">>), created_at |-> 0, updated_at |-> 0,
                  last_active_at |-> None, deleted_at |-> None]>>
    /\ news = <<[title |-> "t1", url |-> "u1", content |-> NoneStr,
                 source |-> NoneStr, published_at |-> None,
                 created_at |-> 0, updated_at |-> 0, deleted_at |-> None]>>
    /\ sessions = << >>
    /\ session_seq = 0
    /\ tasks = << >>
    /\ task_seq = 0
    /\ dialogues = << >>
    /\ dialogue_seq = 0
    /\ interactions = <<>>
    /\ schema \in SchemaDrafts
    /\ txn = NoTxn
    /\ resp = NoResponse
    /\ ProtoIdle

NextRefs ==
    \/ \E u \in UserIds : delete_user(u)
    \/ \E n \in NewsIds : delete_news(n)
    \/ \E u \in UserIds, c \in {NoneStr} : create_session(u, c, 0)
    \/ \E n \in NewsIds, t \in InteractionTypes, u \in UserIds : create_interaction(n, t, u)

SpecRefs == InitRefs /\ [][NextRefs]_vars

-----------------------------------------------------------------------------
(* Sessions with their agent tasks and dialogues: one user exists *)

InitCascade == InitSessions

NextCascade ==
    \/ \E u \in UserIds, c \in {NoneStr} : create_session(u, c, 0)
    \/ \E a \in Agents, s \in SessionIds, d \in {None} \cup DialogueIds, i \in Inputs :
          create_agent_task(a, s, d, i)
    \/ /\ dialogue_seq < MaxDialogues
       /\ \E s \in SessionIds, t \in SenderTypes, c \in Contents : create_dialogue(s, t, c)
    \/ \E d \in DialogueIds : delete_dialogue(d)
    \/ \E s \in SessionIds : delete_session(s)
    \/ \E u \in UserIds : delete_user_sessions(u)

SpecCascade == InitCascade /\ [][NextCascade]_vars

\* the feed of every source is drawn once; the articles table is empty
InitBatchV1 ==
    /\ DbIdle
    /\ pw = [op |-> "none"]
    /\ url = [op |-> "none"]
    /\ \E feeds \in [DOMAIN RSS_SOURCES -> StringsUpTo(FeedEntries, MaxPerSource)] :
          batch = [op |-> "feeds", feeds |-> feeds, articles |-> << >>,
                   before |-> << >>, runs |-> 0]
    /\ chat = [op |-> "none"]

NextBatchV1 == \E same_ms \in BOOLEAN : run_batch_process(same_ms)

SpecBatchV1 == InitBatchV1 /\ [][NextBatchV1]_vars

\* the articles table after some batch runs: one article a day, all dates in
\* the format of their feed; the query comes later
ArticleWords == {{}, {"k1"}, {"k1", "k2"}}

InitOnDemand ==
    /\ DbIdle
    /\ pw = [op |-> "none"]
    /\ url = [op |-> "none"]
    /\ \E n \in 0..MaxStored, fmt \in DateFormats, age \in {1, 2 * TimeWindowDays},
          feed \in {<<>>, [i \in 1..4 |-> [title |-> <<"a">>, link |-> <<"a">>]]} :
          \E words \in [1..n -> ArticleWords] :
             batch = [op |-> "stored",
                      articles |-> [k \in 1..n |->
                                      [published_at |-> [fmt |-> fmt, day |-> k],
                                       words |-> words[k]]],
                      today |-> n + age,
                      feeds |-> [s \in DOMAIN RSS_SOURCES |-> feed],
                      query |-> <<>>, rows |-> <<>>, fetched |-> 0,
                      top_articles |-> <<>>]
    /\ chat = [op |-> "none"]

NextOnDemand ==
    \E query \in {<<"k1">>, <<"k1", "k2">>, <<"x">>} :
       process_ondemand_query(query, TimeWindowDays)

SpecOnDemand == InitOnDemand /\ [][NextOnDemand]_vars

\* the dialogue history: sessions of one user, their messages and the two
\* history queries
HistoryLimits == {0, 1, 2, 50}

InitHistory == InitSessions

NextHistory ==
    \/ \E u \in UserIds : create_session(u, NoneStr, 0)
    \/ /\ dialogue_seq < MaxMessages
       /\ \E s \in SessionIds, t \in SenderTypes, c \in Contents : create_dialogue(s, t, c)
    \/ \E s \in SessionIds, n \in HistoryLimits : get_session_history(s, n)
    \/ \E s \in SessionIds, n \in HistoryLimits : get_conversation_context(s, n)
    \/ Tick

SpecHistory == InitHistory /\ [][NextHistory]_vars

\* the v3 reader: the browser before the first load, then loads and reruns
ParamIds == {NoneStr, "1", "9", "x"}
ParamTerms == {NoneStr, "inflation", "bitcoin", "%41"}

InitV3 ==
    /\ DbIdle
    /\ pw = [op |-> "none"]
    /\ url = [op |-> "none"]
    /\ batch = [op |-> "none"]
    /\ chat = [op |-> "start", request |-> query_params(NoneStr, NoneStr), session_state |-> [fresh |-> TRUE],
               params |-> query_params(NoneStr, NoneStr), view |-> "none"]

NextV3 ==
    \/ \E a \in {"1", "2", "3"} : click_card(a)
    \/ \E a \in {"1", "2", "3"}, t \in Range(GLOSSARY_KEYS) : click_term(a, t)
    \/ click_back
    \/ \E a \in ParamIds, t \in ParamTerms : open_url(a, t)
    \/ toggle_settings
    \/ \E w \in {<<"hello">>, <<"inflation">>, <<"hello", "kospi">>} : chat_input_v3(w)

SpecV3 == InitV3 /\ [][NextV3]_vars

\* two concurrent requests against one user, one session and its task
InitRaces == InitSessions

NextRaces ==
    \/ \E u \in UserIds : create_session(u, NoneStr, 0)
    \/ \E a \in Agents, s \in SessionIds, i \in Inputs : create_agent_task(a, s, None, i)
    \/ \E r \in Requests, u \in UserIds, d \in UserUpdate : update_user_read(r, u, d)
    \/ \E r \in Requests : update_user_commit(r)
    \/ \E r \in Requests, t \in TaskIds : start_agent_task_read(r, t)
    \/ \E r \in Requests : start_agent_task_commit(r)
    \/ \E r \in Requests, u \in UserCreate : create_user_check(r, u)
    \/ \E r \in Requests, salt \in UserSalts : create_user_insert(r, salt)

SpecRaces == InitRaces /\ [][NextRaces]_vars

\* a user with sessions and interactions, soft-deleted at some point
InitSoftDelete == InitRefs

NextSoftDelete ==
    \/ \E u \in UserIds : delete_user(u)
    \/ \E u \in UserIds, up \in {d \in UserUpdate : d.model_fields_set = {"username"}} :
          update_user(u, up)
    \/ \E u \in UserIds : activate_user(u)
    \/ \E u \in UserIds : create_session(u, NoneStr, 0)
    \/ \E t \in Tokens : get_session_by_token(t)
    \/ /\ Len(interactions) < 1
       /\ \E n \in NewsIds, t \in {"click"}, u \in UserIds : create_interaction(n, t, u)
    \/ Tick

SpecSoftDelete == InitSoftDelete /\ [][NextSoftDelete]_vars

-----------------------------------------------------------------------------
(* Properties of the agent-task state machine *)

\* C1: once a task's status is completed, failed or cancelled, no start,
\* complete, fail or update step changes the status of that task.
C1_TerminalAbsorbing ==
    [][\A t \in DOMAIN tasks :
          (is_terminal(tasks[t].status) /\ t \in DOMAIN tasks')
             => tasks'[t].status = tasks[t].status]_vars

\* C2: a start request on an existing task succeeds exactly when the task is
\* pending and then sets its status to in_progress and nothing else; for any
\* other status of the enumeration it answers 400 naming that status and
\* leaves the table unchanged; hence a start that directly follows a
\* successful start of the same task answers 400.
C2_StartOnlyFromPending ==
    [][(resp'.op = "start_agent_task" /\ resp'.id \in DOMAIN tasks) =>
          LET t == resp'.id IN
          /\ tasks[t].status = "pending" =>
                /\ resp'.code = HTTP_200_OK
                /\ tasks' = [tasks EXCEPT ![t].status = "in_progress"]
          /\ tasks[t].status \in TaskStatus \ {"pending"} =>
                /\ resp'.code = HTTP_400_BAD_REQUEST
                /\ resp'.detail = tasks[t].status
                /\ tasks' = tasks
          /\ (resp.op = "start_agent_task" /\ resp.id = t /\ resp.code = HTTP_200_OK) =>
                resp'.code = HTTP_400_BAD_REQUEST]_vars

\* C2 witness: a start request was refused with 400 on a task that is in_progress
C2_Witness ==
    /\ resp.op = "start_agent_task"
    /\ resp.code = HTTP_400_BAD_REQUEST
    /\ resp.detail = "in_progress"
    /\ resp.id \in DOMAIN tasks
    /\ tasks[resp.id].status = "in_progress"

\* C16: a task whose status has left pending never has status pending again.
C16_StatusForward ==
    [][\A t \in DOMAIN tasks \cap DOMAIN tasks' :
          tasks[t].status # "pending" => tasks'[t].status # "pending"]_vars

\* C17: complete on a task whose status is pending or in_progress sets the
\* status to completed and stores exactly the supplied output payload and
\* duration; every other column of the task, and every other task, is
\* unchanged.
C17_CompleteRecords ==
    [][(/\ resp'.op = "complete_agent_task"
        /\ resp'.id \in DOMAIN tasks
        /\ tasks[resp'.id].status \in {"pending", "in_progress"})
       => tasks' = [tasks EXCEPT ![resp'.id] =
                       [tasks[resp'.id] EXCEPT !.status = "completed",
                                               !.output_data = resp'.args[1],
                                               !.duration_ms = resp'.args[2]]]]_vars

\* C17 witness: a task was completed with a duration of 0
C17_Witness ==
    /\ resp.op = "complete_agent_task"
    /\ resp.code = HTTP_200_OK
    /\ resp.args[2] = 0
    /\ tasks[resp.id].status = "completed"
    /\ tasks[resp.id].output_data = resp.args[1]
    /\ tasks[resp.id].duration_ms = 0

\* C18: fail on an existing task sets the status to failed and stores the
\* supplied error explanation; a supplied duration (0 included) is stored,
\* and without one the stored duration is unchanged.
C18_FailRecords ==
    [][(resp'.op = "fail_agent_task" /\ resp'.id \in DOMAIN tasks)
       => /\ tasks'[resp'.id].status = "failed"
          /\ tasks'[resp'.id].error_reason = resp'.args[1]
          /\ tasks'[resp'.id].duration_ms =
                (IF resp'.args[2] # None THEN resp'.args[2]
                 ELSE tasks[resp'.id].duration_ms)]_vars

\* C19: create-agent-task stores a task, with status pending and the agent and
\* session of the request, only when the agent and the session exist; when
\* either is missing the answer is 404 and the tasks table is unchanged.
C19_CreateTaskChecksRefs ==
    [][resp'.op = "create_agent_task" =>
          LET agent_id == resp'.args[1][1]
              session_id == resp'.args[1][2]
          IN /\ (agent_id \notin Agents \/ session_id \notin DOMAIN sessions)
                   => (resp'.code = HTTP_404_NOT_FOUND /\ tasks' = tasks)
             /\ tasks' # tasks
                   => /\ agent_id \in Agents
                      /\ session_id \in DOMAIN sessions
                      /\ resp'.id \notin DOMAIN tasks
                      /\ DOMAIN tasks' = DOMAIN tasks \cup {resp'.id}
                      /\ \A t \in DOMAIN tasks : tasks'[t] = tasks[t]
                      /\ tasks'[resp'.id].status = "pending"
                      /\ tasks'[resp'.id].agent_id = agent_id
                      /\ tasks'[resp'.id].session_id = session_id]_vars

\* C19 witness: a request naming the stored agent and a session that does not
\* exist was answered 404
C19_Witness ==
    /\ resp.op = "create_agent_task"
    /\ resp.code = HTTP_404_NOT_FOUND
    /\ resp.args[1][1] \in Agents
    /\ resp.args[1][2] \notin DOMAIN sessions
    /\ DOMAIN tasks = {}

-----------------------------------------------------------------------------
(* Properties of the session lease *)

\* C3: get-by-token of a stored session answers 401 when expires_at < now and
\* returns the session otherwise; get-by-id and list-by-user answer 200 with
\* the stored rows whatever their expiry.
C3_ExpiryGate ==
    /\ resp.op = "get_session_by_token" =>
          \A k \in DOMAIN sessions : sessions[k].session_token = resp.id =>
             IF sessions[k].expires_at < now
             THEN resp.code = HTTP_401_UNAUTHORIZED /\ resp.body = <<>>
             ELSE resp.code = HTTP_200_OK /\ resp.body = <<sessions[k]>>
    /\ (resp.op = "get_session" /\ resp.id \in DOMAIN sessions) =>
          resp.code = HTTP_200_OK /\ resp.body = <<sessions[resp.id]>>
    /\ resp.op = "get_sessions" =>
          /\ resp.code = HTTP_200_OK
          /\ \A k \in DOMAIN sessions : sessions[k].user_id = resp.id =>
                (resp.args[1] = 0 => \E i \in DOMAIN resp.body : resp.body[i] = sessions[k])

\* C3 witness: a get-by-token was refused with 401 for a stored, expired session
C3_Witness ==
    /\ resp.op = "get_session_by_token"
    /\ resp.code = HTTP_401_UNAUTHORIZED
    /\ \E k \in DOMAIN sessions :
          sessions[k].session_token = resp.id /\ sessions[k].expires_at < now

\* C4: right after create, expires_at = created_at + 24 hours; right after a
\* refresh at time T, expires_at = T + 24 hours.
C4_LeaseExactly24h ==
    /\ (resp.op = "create_session" /\ resp.code = HTTP_201_CREATED) =>
          resp.body[1].expires_at = resp.body[1].created_at + LEASE_HOURS
    /\ (resp.op = "refresh_session" /\ resp.code = HTTP_200_OK) =>
          resp.body[1].expires_at = now + LEASE_HOURS

-----------------------------------------------------------------------------
(* Properties of the users and news routers *)

\* C5: once a user (or news) row is soft-deleted, every later get-by-id,
\* update and delete of that id answers 404 and every list leaves the row
\* out, while the row stays stored with its deletion time; the users and news
\* tables never lose a row.
C5_SoftDeleteExclusion ==
    [][/\ Len(users') >= Len(users)
       /\ Len(news') >= Len(news)
       /\ \A k \in DOMAIN users : users[k].deleted_at # None =>
             /\ users'[k].deleted_at = users[k].deleted_at
             /\ (resp'.op \in {"get_user", "update_user", "delete_user"} /\ resp'.id = k)
                   => resp'.code = HTTP_404_NOT_FOUND
             /\ resp'.op = "get_users" =>
                   \A i \in DOMAIN resp'.body : resp'.body[i].email # users[k].email
       /\ \A k \in DOMAIN news : news[k].deleted_at # None =>
             /\ news'[k].deleted_at = news[k].deleted_at
             /\ (resp'.op \in {"get_news", "update_news", "delete_news"} /\ resp'.id = k)
                   => resp'.code = HTTP_404_NOT_FOUND
             /\ resp'.op = "get_news_list" =>
                   \A i \in DOMAIN resp'.body : resp'.body[i].url # news[k].url]_vars

\* C5 witness: a get-by-id of a stored, soft-deleted user was answered 404
C5_Witness ==
    /\ resp.op = "get_user"
    /\ resp.code = HTTP_404_NOT_FOUND
    /\ resp.id \in DOMAIN users
    /\ users[resp.id].deleted_at # None

\* C6: a create-user request whose e-mail equals that of a stored user row,
\* and a create-news request whose URL equals that of a stored news row, is
\* answered 400 and leaves both tables unchanged.
C6_DuplicateRejected ==
    [][/\ (resp'.op = "create_user" /\ \E k \in DOMAIN users : users[k].email = resp'.args[1])
             => (resp'.code = HTTP_400_BAD_REQUEST /\ users' = users /\ news' = news)
       /\ (resp'.op = "create_news" /\ \E k \in DOMAIN news : news[k].url = resp'.args[1])
             => (resp'.code = HTTP_400_BAD_REQUEST /\ users' = users /\ news' = news)]_vars

\* C6 witness: a create-user request was refused with 400 because a
\* soft-deleted row holds its e-mail
C6_Witness ==
    /\ resp.op = "create_user"
    /\ resp.code = HTTP_400_BAD_REQUEST
    /\ \E k \in DOMAIN users : users[k].email = resp.args[1] /\ users[k].deleted_at # None

-----------------------------------------------------------------------------
(* Properties of the helpers *)

\* C7: verify_password(p, hash_password(p)) is true, verify_password(q,
\* hash_password(p)) is false for q # p, and verify_password answers false,
\* without raising, for a stored value that has no "$".
C7_PasswordRoundTrip ==
    /\ pw.op = "verify_hashed" =>
          pw.result = (IF pw.candidate = pw.password THEN "True" ELSE "False")
    /\ (pw.op = "verify_stored" /\ \A i \in DOMAIN pw.hashed : pw.hashed[i] # "$") =>
          pw.result = "False"

\* C7 witness: a wrong candidate was verified against a hashed password
C7_Witness ==
    /\ pw.op = "verify_hashed"
    /\ pw.candidate # pw.password
    /\ pw.result = "False"

\* the number of bit positions in which two fingerprints differ
RECURSIVE DifferingBits(_, _)
DifferingBits(a, b) ==
    IF a = 0 /\ b = 0 THEN 0
    ELSE (IF a % 2 # b % 2 THEN 1 ELSE 0) + DifferingBits(a \div 2, b \div 2)

\* C8: the articles accepted by the dedup step are pairwise at Hamming
\* distance 3 or more, and an article read so far was dropped exactly when it
\* is at distance less than 3 from an article accepted before it.
C8_SimHashDedup ==
    batch.op = "dedup" =>
       LET raw == batch.raw_articles
           accepted == Range(batch.normalized_articles)
       IN /\ \A a, b \in accepted : a # b => DifferingBits(raw[a], raw[b]) >= 3
          /\ \A n \in 1..batch.i :
                n \notin accepted <=>
                   \E a \in accepted : a < n /\ DifferingBits(raw[a], raw[n]) < 3

\* C8 witness: the whole batch was read, two articles were accepted and one
\* was dropped
C8_Witness ==
    /\ batch.op = "dedup"
    /\ batch.i = Len(batch.raw_articles)
    /\ Len(batch.normalized_articles) >= 2
    /\ Len(batch.normalized_articles) < batch.i

\* C9: normalize_url (v1, v2) is idempotent: normalize(normalize(u)) =
\* normalize(u) for every URL u.
C9_NormalizeUrlIdempotent ==
    (url.op = "normalize_url" /\ url.count = 2) => url.cur = url.prev

\* C10: for a term that is no key of the glossary, v1, v2 and v3 suggest
\* exactly min(2, glossary size) distinct keys of the glossary (at least one);
\* v4 answers an input that contains no key with the list of exactly its
\* glossary's keys; no lookup raises.
C10_GlossaryFallback ==
    /\ chat.raised = "ok"
    /\ chat.op = "fallback" =>
          /\ Len(chat.similar) = Min(2, Len(GLOSSARY_KEYS))
          /\ Len(chat.similar) >= 1
          /\ \A i, j \in DOMAIN chat.similar : i # j => chat.similar[i] # chat.similar[j]
          /\ Range(chat.similar) \subseteq Range(GLOSSARY_KEYS)
    /\ (chat.version = 4 /\ chat.op # "start"
          /\ Range(chat.input) \cap Range(FINANCIAL_TERMS_KEYS) = {}) =>
          /\ chat.op = "unmatched"
          /\ chat.listed = FINANCIAL_TERMS_KEYS

\* C10 witness: a term that is no key got two suggestions
C10_Witness ==
    /\ chat.op = "fallback"
    /\ chat.version \in {1, 2, 3}
    /\ chat.input[1] \notin Range(GLOSSARY_KEYS)
    /\ Len(chat.similar) = 2

\* C11: for a text of n characters both estimators return floor(n / 2), the
\* integer k with 2k <= n < 2k + 2; for n = 1000 both return 500.
C11_TokenEstimate ==
    batch.op = "estimate_tokens" =>
       /\ 2 * batch.tokens <= Len(batch.text)
       /\ Len(batch.text) < 2 * batch.tokens + 2
       /\ Len(batch.text) = 1000 => batch.tokens = 500

\* C11 witness: a text of 1,000 characters was estimated at 500 tokens by v2
C11_Witness ==
    /\ batch.op = "estimate_tokens"
    /\ batch.version = 2
    /\ Len(batch.text) = 1000
    /\ batch.tokens = 500

-----------------------------------------------------------------------------
(* Properties of the references between tables *)

C13_MissingRefs404 ==
    [][/\ (resp'.op = "create_session" /\ first_live(users, resp'.args[1]) = <<>>)
             => (resp'.code = HTTP_404_NOT_FOUND /\ sessions' = sessions)
       /\ (resp'.op = "create_interaction" /\ first_live(news, resp'.args[1][2]) = <<>>)
             => (resp'.code = HTTP_404_NOT_FOUND /\ interactions' = interactions)]_vars

C15_ExpiresAtFrame ==
    [][/\ \A s \in DOMAIN sessions \cap DOMAIN sessions' :
             /\ sessions'[s].expires_at # sessions[s].expires_at
                   => (resp'.op = "refresh_session" /\ resp'.id = s)
             /\ sessions'[s].session_token = sessions[s].session_token
             /\ sessions'[s].user_id = sessions[s].user_id
       /\ resp'.op \in {"get_session", "get_session_by_token", "get_sessions",
                        "update_session_context"}
             => DOMAIN sessions' = DOMAIN sessions]_vars

\* C15 witness: the context of a session was replaced after time had passed,
\* and its expiry is still the one set at creation
C15_Witness ==
    /\ resp.op = "update_session_context"
    /\ resp.code = HTTP_200_OK
    /\ sessions[resp.id].context # NoneStr
    /\ now >= sessions[resp.id].created_at + TickHours
    /\ sessions[resp.id].expires_at <= sessions[resp.id].created_at + LEASE_HOURS

\* C20: after a v1 batch run no two stored articles share a fingerprint, and
\* a second run over the same feeds leaves the articles table unchanged.
C20_BatchDedupV1 ==
    batch.op = "run_batch_process" =>
       /\ \A j, k \in DOMAIN batch.articles :
             batch.articles[j].simhash = batch.articles[k].simhash => j = k
       /\ batch.runs = 2 => batch.articles = batch.before

-----------------------------------------------------------------------------
(* Properties of the v1 on-demand query *)

\* C21: the answer uses at most 5 of the retrieved stored articles; no
\* retrieved article left out has a strictly higher score than one that was
\* kept; when fewer than 5 retrieved articles score above zero, the other
\* places are filled with the most recently published zero-score articles.
C21_OnDemandSelection ==
    (batch.op = "process_ondemand_query" /\ batch.fetched = 0) =>
       LET table == batch.articles
           keywords == keywords_of(batch.query)
           score(k) == relevance_score(table[k], keywords)
           retrieved == {batch.rows[i] : i \in DOMAIN batch.rows}
           kept == {batch.top_articles[i].id : i \in DOMAIN batch.top_articles}
           positive == {k \in retrieved : score(k) > 0}
       IN /\ Len(batch.top_articles) <= 5
          /\ Len(batch.rows) <= 20
          /\ kept \subseteq retrieved
          /\ \A out \in retrieved \ kept : \A k \in kept : score(out) <= score(k)
          /\ Cardinality(positive) < 5 =>
                /\ Cardinality(kept) = Min(5, Cardinality(retrieved))
                /\ \A z \in kept \ positive : \A out \in retrieved \ kept :
                      table[z].published_at.day > table[out].published_at.day

\* C22: whenever the articles table holds at least one row, the query fetches
\* nothing from the RSS sources.
C22_FallbackOnlyWhenEmpty ==
    (batch.op = "process_ondemand_query" /\ Len(batch.articles) > 0) =>
       batch.fetched = 0

-----------------------------------------------------------------------------
(* Properties of the dialogue history *)

\* the ids of the min(n, count) most recently created messages of a session,
\* oldest first (ids are given in the order of creation)
RECURSIVE SortedIds(_)
SortedIds(ids) ==
    IF ids = {} THEN <<>>
    ELSE LET m == CHOOSE x \in ids : \A y \in ids : x <= y
         IN <<m>> \o SortedIds(ids \ {m})

MostRecent(session_id, n) ==
    LET all == SortedIds({k \in DOMAIN dialogues : dialogues[k].session_id = session_id})
    IN SubSeq(all, Len(all) - Min(n, Len(all)) + 1, Len(all))

\* C23: the history and the context of a session, asked with a limit N, both
\* return the min(N, count) most recently created messages of the session,
\* oldest first; the context's message_count is the number of its messages,
\* which are, in order, those of the history result.
C23_HistoryMostRecent ==
    /\ resp.op = "get_session_history" =>
          LET want == MostRecent(resp.args[1], resp.args[2])
          IN /\ Len(resp.body) = Len(want)
             /\ \A i \in DOMAIN want : resp.body[i].id = want[i]
    /\ resp.op = "get_conversation_context" =>
          LET want == MostRecent(resp.args[1], resp.args[2])
              context == resp.body[1]
          IN /\ context.message_count = Len(context.messages)
             /\ Len(context.messages) = Len(want)
             /\ \A i \in DOMAIN want :
                   /\ context.messages[i].role = dialogues[want[i]].sender_type
                   /\ context.messages[i].content = dialogues[want[i]].content
                   /\ context.messages[i].timestamp = dialogues[want[i]].created_at

-----------------------------------------------------------------------------
(* Properties of the v3 reader *)

\* C24: a page load carrying a term appends exactly one user-question /
\* assistant-answer pair to the chat history and clears the query params, a
\* re-render that carries no new parameters appends nothing, and a load
\* carrying an article_id that is a number selects that article.
C24_QueryParams ==
    [][ /\ (chat'.op \in {"click_term", "open_url"} /\ chat'.request.term # NoneStr) =>
             /\ Len(chat'.session_state.chat_history) = 3
             /\ chat'.session_state.chat_history[1] = GREETING
             /\ chat'.session_state.chat_history[2].role = "user"
             /\ chat'.session_state.chat_history[2].term = unquote(chat'.request.term)
             /\ chat'.session_state.chat_history[3] \in
                   generate_term_explanation(unquote(chat'.request.term))
             /\ chat'.params = query_params(NoneStr, NoneStr)
        /\ chat'.op = "rerun" =>
             chat'.session_state.chat_history = chat.session_state.chat_history
        /\ (chat'.op \in {"click_card", "click_term", "open_url"}
              /\ int_of_text(chat'.request.article_id) # None) =>
             chat'.session_state.selected_article = int_of_text(chat'.request.article_id)
      ]_vars

\* a re-render after a load that carried a term
C24_Witness ==
    /\ chat.op = "rerun"
    /\ Len(chat.session_state.chat_history) = 3
    /\ chat.session_state.chat_history[2].kind = "question"
    /\ chat.session_state.selected_article = 1

-----------------------------------------------------------------------------
(* Properties of the v4 chat *)

\* C25: a response generated through the hosted path, for a term or in free
\* chat, forwards at most the 4 most recent turns of the chat history; with
\* the flag off no path calls the hosted API.
C25_ContextWindow ==
    /\ ~chat.use_openai => chat.calls = 0
    /\ (chat.calls > 0 /\ chat.op \in {"hosted", "free_chat"}) =>
          LET sent == SubSeq(chat.chat_history, 1, Len(chat.chat_history) - 1)
          IN /\ Len(chat.forwarded) <= 4
             /\ chat.forwarded =
                   SubSeq(sent, IF Len(sent) > 4 THEN Len(sent) - 3 ELSE 1, Len(sent))

-----------------------------------------------------------------------------
(* Properties of two requests handled at once *)

BothDone(op) == \A r \in Requests : txn[r].op = op /\ txn[r].pc = "done"

\* C26: two updates of one user both succeed; a field set by both holds the
\* value of the request that committed last, and a field set by one of them
\* holds the value of that request.
C26_LastWriteWins ==
    (/\ BothDone("update_user")
     /\ txn[1].id = txn[2].id
     /\ \A r \in Requests : txn[r].loaded # <<>>) =>
       LET last == CHOOSE r \in Requests : \A q \in Requests : txn[q].seq <= txn[r].seq
           set(r) == txn[r].arg[1].model_fields_set
       IN /\ \A r \in Requests : txn[r].code = HTTP_200_OK
          /\ \A f \in set(1) \cap set(2) : users[txn[1].id][f] = txn[last].arg[1][f]
          /\ \A r \in Requests : \A f \in set(r) \ set(3 - r) :
                users[txn[r].id][f] = txn[r].arg[1][f]

\* C27: of two start requests for one pending task exactly one succeeds and
\* the other is answered 400.
C27_StartExclusive ==
    (/\ BothDone("start_agent_task")
     /\ txn[1].id = txn[2].id
     /\ \A r \in Requests : txn[r].loaded # <<>>) =>
       \E r \in Requests : /\ txn[r].code = HTTP_200_OK
                           /\ txn[3 - r].code = HTTP_400_BAD_REQUEST

\* C28: after two create-user requests with one e-mail at most one row holds
\* that e-mail, and each request that did not create the row is answered 400.
C28_DuplicateRejected ==
    (/\ BothDone("create_user")
     /\ txn[1].arg[1].email = txn[2].arg[1].email) =>
       /\ Cardinality({k \in DOMAIN users : users[k].email = txn[1].arg[1].email}) <= 1
       /\ \A r \in Requests :
             txn[r].code # HTTP_201_CREATED => txn[r].code = HTTP_400_BAD_REQUEST

-----------------------------------------------------------------------------
(* Properties of the soft delete of a user *)

=============================================================================
